---- MODULE Spec2Model ----
(***************************************************************************)
(* Model of the semantic search layer of the Google Drive MCP server:      *)
(*   - the three query tools of src/tools/semantic.tools.ts                *)
(*     (semantic_search_folders, semantic_search_files,                    *)
(*      semantic_drive_query), one step per await of the handler;          *)
(*   - the embedding client of src/lib/embeddings.ts (embedTexts);         *)
(*   - the vector store wrapper of src/lib/pinecone.ts (queryIndex,        *)
(*     upsertVectors, deleteVectors);                                      *)
(*   - the indexer of src/services/driveSemanticIndexer.ts: indexFolder    *)
(*     and indexFile on the store (SpecIndex), and the bulk operations     *)
(*     indexAllFolders, indexFilesInFolder, fullSync (SpecSync).           *)
(* The Gemini provider, the Pinecone provider and the Drive API are the    *)
(* environment: each call of them may fail, chosen nondeterministically.   *)
(***************************************************************************)
EXTENDS Integers, Sequences, FiniteSets, TLC

\* ---------------------------------------------------------------- bounds

\* Largest topK / maxFolders / maxFiles a caller passes (0 is allowed by z.number()).
MaxTopK == 2
\* Similarity scores of the free file records are drawn from 1..MaxScore.
MaxScore == 2
\* embedTexts: longest input list, largest batchSize, largest maxRetries.
MaxTexts == 3
MaxBatchSize == 2
MaxRetriesBound == 3
\* How far below zero the batch index of embedTexts is followed (batchSize < 0).
MaxUnderflow == 2

\* ------------------------------------------------------------- sequences

Min(a, b) == IF a <= b THEN a ELSE b
Max(a, b) == IF a >= b THEN a ELSE b

\* Array.prototype.slice(from, to) on a 1-based sequence (negative indices
\* count from the end, as in JavaScript).
JsSlice(s, from, to) ==
  LET n  == Len(s)
      lo == IF from < 0 THEN Max(n + from, 0) ELSE Min(from, n)
      hi == IF to < 0 THEN Max(n + to, 0) ELSE Min(to, n)
  IN  IF hi <= lo THEN << >> ELSE SubSeq(s, lo + 1, hi)

\* Insert r into a sequence sorted by descending score, after every element
\* whose score is >= r.score (keeps equal scores in arrival order).
InsertDesc(sorted, r) ==
  LET before == { k \in 1..Len(sorted) : sorted[k].score >= r.score }
      p      == IF before = {} THEN 0 ELSE CHOOSE k \in before : \A m \in before : m <= k
  IN  SubSeq(sorted, 1, p) \o << r >> \o SubSeq(sorted, p + 1, Len(sorted))

RECURSIVE SortDescFrom(_, _)
SortDescFrom(sorted, rest) ==
  IF rest = << >> THEN sorted
  ELSE SortDescFrom(InsertDesc(sorted, Head(rest)), Tail(rest))

\* A stable sort by descending score.
SortDesc(s) == SortDescFrom(<< >>, s)

RECURSIVE SelectSeqBy(_, _)
\* The records of s whose folderId is fid, in order.
SelectSeqBy(s, fid) ==
  IF s = << >> THEN << >>
  ELSE IF Head(s).folderId = fid
       THEN << Head(s) >> \o SelectSeqBy(Tail(s), fid)
       ELSE SelectSeqBy(Tail(s), fid)

\* ------------------------------------------------------------------ state

VARIABLES
  \* process configuration (environment of main)
  pineconeApiKey,   \* PINECONE_API_KEY is set
  geminiApiKey,     \* GEMINI_API_KEY is set
  hosts,            \* which of PINECONE_FOLDERS_HOST / PINECONE_FILES_HOST are set
  \* module-level state of lib/embeddings.ts and lib/pinecone.ts
  genAI,            \* genAI !== null
  pineconeClient,   \* pineconeClient !== null
  config,           \* config !== null
  handles,          \* which clients the two modules hold, and the model name
  mainDone,         \* main() has run
  \* the two Pinecone collections, scored against the query vector
  folderColl,       \* sequence of [id, score]
  fileColl,         \* sequence of [id, folderId, score]
  \* one tool invocation
  pc,               \* "idle", "embed", "folders", "files", "content", "done"
  tool,             \* which handler runs
  args,             \* its arguments
  folders,          \* SemanticFolderResult[]
  folderIds,        \* ids the item search iterates over
  idx,              \* position of the for-of loop (item search / content)
  allFiles,         \* SemanticFileResult[] being merged
  topFiles,         \* allFiles.slice(0, cap)
  content,          \* content entries collected so far
  response,         \* what the handler returned
  \* calls made to the outside during the invocation
  embedCalls,       \* number of embedContent calls
  queryLog,         \* queryIndex calls: [index, host, topK, filter, sent]
  readLog,          \* readFileContent calls: file ids
  \* history of the invocation (what the environment answered)
  embedFailed,      \* embedText threw in this invocation
  embedGot,         \* what embedContent answered: "none" (not called), "vector",
                    \* "empty" (no usable vector) or "error" (it threw)
  folderSearch,     \* "none", "ok" or "failed": how the container search ended
  failedAt,         \* loop positions whose item search failed
  readOutcome,      \* outcome of each readFileContent call
  embedFailedBefore,\* an earlier invocation ended on an embedding failure
  \* embedTexts
  etPc, texts, batchSize, maxRetries, etI, etK, retries, embeddings,
  etCalls, etWaits,
  \* services/driveSemanticIndexer.ts: indexFolder / indexFile on the store
  now,              \* the clock read by new Date()
  source,           \* the entities the Drive currently holds
  ops,              \* per indexing run: the indexFolder / indexFile call it is in
  lastUpsert,       \* per id: the record of the latest upsertVectors that returned
  delLog,           \* the ids named in deleteVectors calls so far
  \* services/driveSemanticIndexer.ts: one bulk operation
  sync,             \* its command, position, listings, running tasks, history
  \* one call of a function exported by lib/pinecone.ts or lib/embeddings.ts
  call,             \* the function, its arguments, its position and how it ended
  provLog,          \* the provider calls it has made: [host, kind, ids]
  \* one indexFolder / indexFile call, or one getFolderPath walk, step by step
  task              \* its arguments, position, what it read and built, its calls

envVars   == << pineconeApiKey, geminiApiKey, hosts, folderColl, fileColl >>
libVars   == << genAI, pineconeClient, config, handles, mainDone >>
localVars == << tool, args, folders, folderIds, idx, allFiles, topFiles, content >>
logVars   == << embedCalls, queryLog, readLog, embedFailed, embedGot, folderSearch, failedAt,
               readOutcome >>
toolVars  == << pc, localVars, response, logVars, embedFailedBefore >>
etVars    == << etPc, texts, batchSize, maxRetries, etI, etK, retries, embeddings,
                etCalls, etWaits >>
ixVars    == << now, source, ops, lastUpsert, delLog >>
syVars    == << sync >>
stVars    == << call, provLog, task >>
indexerVars == << ixVars, syVars, stVars >>
vars      == << envVars, libVars, toolVars, etVars, indexerVars >>

\* ------------------------------------------------------ lib/embeddings.ts

\* A module-level client variable that is still null.
NoHandle == "null"

\* The key the process environment holds.
EnvKey == "env"

\* let model = 'text-embedding-004'
DefaultModel == "text-embedding-004"

\* The module-level variables as main() or scripts/indexDrive.ts leave them:
\* g and p say whether genAI and pineconeClient are set.
LibHandles(g, p) ==
  [genAI    |-> IF g THEN EnvKey ELSE NoHandle,
   pinecone |-> IF p THEN EnvKey ELSE NoHandle,
   model    |-> DefaultModel]

\* initEmbeddings(apiKey, embeddingModel): returns at once when genAI is set;
\* otherwise builds the client and, when a model name is given ("" stands for
\* none), stores it.
initEmbeddingsOverwrites(h, apiKey, embeddingModel) ==
  [h EXCEPT !.genAI = apiKey,
            !.model = IF embeddingModel # "" THEN embeddingModel ELSE @]
initEmbeddings(h, apiKey, embeddingModel) ==
  IF h.genAI # NoHandle THEN h
  ELSE [h EXCEPT !.genAI = apiKey,
                 !.model = IF embeddingModel # "" THEN embeddingModel ELSE @]

\* isInitialized() of lib/embeddings.ts
embeddingsInitialized == genAI

\* embedText(text): getClient() throws without a provider call when genAI is
\* null; otherwise one embedContent call, which yields a vector or throws (a
\* provider error, or no usable vector in the response).
ProviderAnswers == {"vector", "empty", "error"}

embedText ==
  IF ~genAI THEN { [ok |-> FALSE, called |-> FALSE, got |-> "none"] }
  ELSE { [ok |-> (g = "vector"), called |-> TRUE, got |-> g] : g \in ProviderAnswers }

\* -------------------------------------------------------- lib/pinecone.ts

IndexFoldersName == "drive-folders"
IndexFilesName   == "drive-files"
FoldersHostVar   == "PINECONE_FOLDERS_HOST"
FilesHostVar     == "PINECONE_FILES_HOST"
NoFilter         == "none"
NoFolderId       == ""

\* initPinecone(apiKey, indexFolders, indexFiles): returns at once when the
\* client is set; otherwise stores the names and builds the client.
initPineconeHandle(h, apiKey) ==
  IF h.pinecone # NoHandle THEN h ELSE [h EXCEPT !.pinecone = apiKey]
initPineconeNames(h, cfg, indexFolders, indexFiles) ==
  IF h.pinecone # NoHandle THEN cfg
  ELSE << [indexFolders |-> indexFolders, indexFiles |-> indexFiles] >>

\* isInitialized() of lib/pinecone.ts
pineconeInitialized == pineconeClient /\ config # << >>

\* getIndex(indexName): the host the index resolves to, "" when unresolved.
getIndexHostSwapped(indexName) ==
  IF config = << >> THEN ""
  ELSE IF indexName = config[1].indexFolders
       THEN (IF FilesHostVar \in hosts THEN FilesHostVar ELSE "")
  ELSE IF indexName = config[1].indexFiles
       THEN (IF FoldersHostVar \in hosts THEN FoldersHostVar ELSE "")
  ELSE ""
getIndexHost(indexName) ==
  IF config = << >> THEN ""
  ELSE IF indexName = config[1].indexFolders
       THEN (IF FoldersHostVar \in hosts THEN FoldersHostVar ELSE "")
  ELSE IF indexName = config[1].indexFiles
       THEN (IF FilesHostVar \in hosts THEN FilesHostVar ELSE "")
  ELSE ""

\* The collection served at a host.
HostColl(host) == IF host = FoldersHostVar THEN folderColl ELSE fileColl

\* The provider's answer to query({vector, topK, filter}): the matching records,
\* best score first, at most topK of them.
ProviderQueryRaw(host, topK, filter) ==
  IF filter = NoFilter THEN HostColl(host) ELSE SelectSeqBy(HostColl(host), filter)
ProviderQuery(host, topK, filter) ==
  LET matching == IF filter = NoFilter THEN HostColl(host)
                  ELSE SelectSeqBy(HostColl(host), filter)
  IN  JsSlice(SortDesc(matching), 0, Max(topK, 0))

\* queryIndex(indexName, queryVector, topK, filter): throws before any provider
\* call when the index cannot be resolved; otherwise one provider call, whose
\* matches are passed on, or whose error is rethrown.
queryIndex(indexName, topK, filter) ==
  IF config = << >> \/ getIndexHost(indexName) = "" \/ ~pineconeClient
  THEN { [ok |-> FALSE, called |-> FALSE, matches |-> << >>] }
  ELSE { [ok |-> FALSE, called |-> TRUE, matches |-> << >>],
         [ok |-> TRUE, called |-> TRUE,
          matches |-> ProviderQuery(getIndexHost(indexName), topK, filter)] }

\* getFolderIndexName() / getFileIndexName(): "" stands for the throw on a null config.
getFolderIndexName == IF config = << >> THEN "" ELSE config[1].indexFolders
getFileIndexName   == IF config = << >> THEN "" ELSE config[1].indexFiles

\* One evaluation of a queryIndex(...) call expression; sent says whether the
\* provider was reached.
QueryEntry(indexName, topK, filter, sent) ==
  [index |-> indexName, host |-> getIndexHost(indexName), topK |-> topK,
   filter |-> filter, sent |-> sent]

\* --------------------------------------------------- tools/semantic.tools.ts

SearchFolders == "semantic_search_folders"
SearchFiles   == "semantic_search_files"
DriveQuery    == "semantic_drive_query"

ErrNone         == "none"
ErrQueryMissing == "Query is required"
ErrNotAvailable == "Semantic search not available"
ErrFailed       == "Failed"

NoResponse ==
  [kind |-> "none", error |-> ErrNone, suggestion |-> FALSE, message |-> FALSE,
   folders |-> << >>, files |-> << >>, content |-> << >>, hasContent |-> FALSE]

\* { content: [...], isError: true } with JSON { error } or { error, suggestion }
ErrorPayload(err, sugg) ==
  [NoResponse EXCEPT !.kind = "error", !.error = err, !.suggestion = sugg]

\* { content: [...] } with the JSON of the result object
SuccessPayload(fs, fl, ct, hasCt, msg) ==
  [NoResponse EXCEPT !.kind = "success", !.folders = fs, !.files = fl,
                     !.content = ct, !.hasContent = hasCt, !.message = msg]

\* The error the handler's own catch block returns.
CatchRethrows(t) == [NoResponse EXCEPT !.kind = "thrown", !.error = ErrFailed]
CatchPayload(t) == ErrorPayload(ErrFailed, FALSE)

\* The payload of the not-initialised early return.
NotAvailablePayload(t) ==
  ErrorPayload(ErrNotAvailable, t = DriveQuery)

\* results.map(...) of the folder search
RECURSIVE MapFolders(_)
MapFolders(ms) ==
  IF ms = << >> THEN << >>
  ELSE << [folderId |-> Head(ms).id, score |-> Head(ms).score] >> \o MapFolders(Tail(ms))

\* results.map(...) of the item search in folder fid
RECURSIVE MapFiles(_, _)
MapFiles(ms, fid) ==
  IF ms = << >> THEN << >>
  ELSE << [fileId |-> Head(ms).id,
           folderId |-> IF Head(ms).folderId # NoFolderId THEN Head(ms).folderId ELSE fid,
           score |-> Head(ms).score] >> \o MapFiles(Tail(ms), fid)

FolderIdsReversed(fs) == [i \in 1..Len(fs) |-> fs[Len(fs) + 1 - i].folderId]
RECURSIVE FolderIdsOf(_)
\* folders.map((f) => f.folderId)
FolderIdsOf(fs) ==
  IF fs = << >> THEN << >> ELSE << Head(fs).folderId >> \o FolderIdsOf(Tail(fs))

\* The cap of the final slice: maxFiles in the orchestrated query,
\* topK * folderIds.length in semantic_search_files.
FileCapPerFolder(t, a, fids) ==
  IF t = DriveQuery THEN a.maxFiles * Len(fids) ELSE a.topK * Len(fids)
FileCap(t, a, fids) ==
  IF t = DriveQuery THEN a.maxFiles ELSE a.topK * Len(fids)

\* topK of each item search
ItemTopK(t, a) == IF t = DriveQuery THEN a.maxFiles ELSE a.topK

DefaultArgs ==
  [query |-> "q", topK |-> 0, maxFolders |-> 0, maxFiles |-> 0,
   includeContent |-> FALSE, folderIds |-> << >>]

\* What every invocation starts from: fresh locals, nothing called yet.
StartInvocation(t, a) ==
  /\ mainDone
  /\ pc \in {"idle", "done"}
  /\ tool' = t
  /\ args' = a
  /\ folders' = << >>
  /\ folderIds' = << >>
  /\ idx' = 0
  /\ allFiles' = << >>
  /\ topFiles' = << >>
  /\ content' = << >>
  /\ embedCalls' = 0
  /\ queryLog' = << >>
  /\ readLog' = << >>
  /\ embedFailed' = FALSE
  /\ embedGot' = "none"
  /\ folderSearch' = "none"
  /\ failedAt' = {}
  /\ readOutcome' = << >>
  /\ embedFailedBefore' = (embedFailedBefore \/ embedFailed)
  /\ UNCHANGED << envVars, libVars, etVars, indexerVars >>

\* allFiles.sort((a, b) => b.score - a.score)
SortFilesSkipped(s) == s
SortFilesTiesReversed(s) == SortDesc([i \in 1..Len(s) |-> s[Len(s) + 1 - i]])
SortFiles(s) == SortDesc(s)

\* The end of the handler after the item-search loop: sort, slice, and either
\* start reading contents (orchestrated query with includeContent and a
\* non-empty top list) or return the success payload.
FinishItemSearch(merged, fids) ==
  LET sorted == SortFiles(merged)
      top    == JsSlice(sorted, 0, FileCap(tool, args, fids))
  IN  /\ allFiles' = sorted
      /\ topFiles' = top
      /\ IF tool = DriveQuery /\ args.includeContent /\ Len(top) > 0
         THEN /\ pc' = "content"
              /\ idx' = 1
              /\ response' = response
         ELSE /\ pc' = "done"
              /\ idx' = idx
              /\ response' =
                   IF tool = DriveQuery
                   THEN SuccessPayload(folders, top, << >>, args.includeContent, FALSE)
                   ELSE SuccessPayload(<< >>, top, << >>, FALSE, FALSE)

\* semantic_search_folders({query, topK}) up to its first await.
CallSearchFolders ==
  \E q \in {"", "q"}, k \in 0..MaxTopK :
    /\ StartInvocation(SearchFolders, [DefaultArgs EXCEPT !.query = q, !.topK = k])
    /\ IF q = ""
       THEN pc' = "done" /\ response' = ErrorPayload(ErrQueryMissing, FALSE)
       ELSE IF ~embeddingsInitialized
       THEN pc' = "done" /\ response' = NotAvailablePayload(SearchFolders)
       ELSE pc' = "embed" /\ response' = NoResponse

\* The folderIds arrays a caller passes to semantic_search_files.
FolderIdArgs ==
  { << >>, << "F1" >>, << "F2" >>, << "F1", "F2" >>, << "F2", "F1" >>, << "F9", "F1" >>,
    << "F1", "F1" >> }

\* semantic_search_files({folderIds, query, topK}) up to its first await.
CallSearchFiles ==
  \E fids \in FolderIdArgs, k \in 0..MaxTopK :
    /\ StartInvocation(SearchFiles, [DefaultArgs EXCEPT !.folderIds = fids, !.topK = k])
    /\ IF ~embeddingsInitialized
       THEN pc' = "done" /\ response' = NotAvailablePayload(SearchFiles)
       ELSE pc' = "embed" /\ response' = NoResponse

\* The initialisation check of semantic_drive_query.
DriveQueryAvailableEmbeddingsOnly == embeddingsInitialized
DriveQueryAvailable == embeddingsInitialized /\ pineconeInitialized

\* semantic_drive_query({query, maxFolders, maxFiles, includeContent}) up to
\* its first await.
CallDriveQuery ==
  \E mfo \in 0..MaxTopK, mfi \in 0..MaxTopK, inc \in BOOLEAN :
    /\ StartInvocation(DriveQuery, [DefaultArgs EXCEPT !.maxFolders = mfo,
                                       !.maxFiles = mfi, !.includeContent = inc])
    /\ IF ~DriveQueryAvailable
       THEN pc' = "done" /\ response' = NotAvailablePayload(DriveQuery)
       ELSE pc' = "embed" /\ response' = NoResponse

\* Where the handler goes when embedText threw.
EmbedFailureContinues(t) == "folders"
EmbedFailureTarget(t) == "done"

\* const queryEmbedding = await embedText(query)
EmbedStep ==
  /\ pc = "embed"
  /\ \E o \in embedText :
       /\ embedCalls' = embedCalls + (IF o.called THEN 1 ELSE 0)
       /\ embedFailed' = ~o.ok
       /\ embedGot' = o.got
       /\ IF ~o.ok
          THEN /\ pc' = EmbedFailureTarget(tool)
               /\ response' = IF pc' = "done" THEN CatchPayload(tool) ELSE response
               /\ UNCHANGED << folderIds, idx, allFiles, topFiles >>
          ELSE IF tool = SearchFiles
          THEN /\ folderIds' = args.folderIds
               /\ IF args.folderIds = << >>
                  THEN FinishItemSearch(<< >>, << >>)
                  ELSE /\ pc' = "files"
                       /\ idx' = 1
                       /\ UNCHANGED << allFiles, topFiles, response >>
          ELSE /\ pc' = "folders"
               /\ UNCHANGED << folderIds, idx, allFiles, topFiles, response >>
  /\ UNCHANGED << tool, args, folders, content, queryLog, readLog, folderSearch,
                  failedAt, readOutcome, embedFailedBefore, envVars, libVars, etVars, indexerVars >>

\* { folders: [], files: [], message: 'No matching folders found' }
NoFoldersAsError(t) == ErrorPayload(ErrFailed, FALSE)
NoFoldersPayload(t) == SuccessPayload(<< >>, << >>, << >>, FALSE, TRUE)

\* topK of the container search
FolderTopKFixed(t, a) == MaxTopK
FolderTopK(t, a) == IF t = DriveQuery THEN a.maxFolders ELSE a.topK

\* await queryIndex(getFolderIndexName(), queryEmbedding, topK) and what
\* follows it up to the next await.
FolderSearchStep ==
  /\ pc = "folders"
  /\ LET name == getFolderIndexName
         k    == FolderTopK(tool, args)
     IN \E o \in (IF name = "" THEN { [ok |-> FALSE, called |-> FALSE, matches |-> << >>] }
                  ELSE queryIndex(name, k, NoFilter)) :
          /\ queryLog' = IF name = "" THEN queryLog
                         ELSE Append(queryLog, QueryEntry(name, k, NoFilter, o.called))
          /\ folderSearch' = IF o.ok THEN "ok" ELSE "failed"
          /\ IF ~o.ok
             THEN /\ pc' = "done"
                  /\ response' = CatchPayload(tool)
                  /\ UNCHANGED << folders, folderIds, idx >>
             ELSE LET fs == MapFolders(o.matches)
                  IN  /\ folders' = fs
                      /\ IF tool = SearchFolders
                         THEN /\ pc' = "done"
                              /\ response' = SuccessPayload(fs, << >>, << >>, FALSE, FALSE)
                              /\ UNCHANGED << folderIds, idx >>
                         ELSE IF Len(fs) = 0
                         THEN /\ pc' = "done"
                              /\ response' = NoFoldersPayload(tool)
                              /\ UNCHANGED << folderIds, idx >>
                         ELSE /\ pc' = "files"
                              /\ folderIds' = FolderIdsOf(fs)
                              /\ idx' = 1
                              /\ response' = response
  /\ UNCHANGED << tool, args, allFiles, topFiles, content, embedCalls, readLog,
                  embedFailed, embedGot, failedAt, readOutcome, embedFailedBefore,
                  envVars, libVars, etVars, indexerVars >>

\* Where the item-search loop goes after the search at position i threw.
ItemFailureAborts(i, n) == n + 1
ItemFailureNext(i, n) == i + 1

\* One iteration of `for (const folderId of folderIds)`: the item search of
\* one folder inside its own try/catch, and, after the last one, the rest of
\* the handler up to the next await.
FileSearchStep ==
  /\ pc = "files"
  /\ idx \in 1..Len(folderIds)
  /\ LET fid  == folderIds[idx]
         name == getFileIndexName
         k    == ItemTopK(tool, args)
     IN \E o \in (IF name = "" THEN { [ok |-> FALSE, called |-> FALSE, matches |-> << >>] }
                  ELSE queryIndex(name, k, fid)) :
          LET merged == IF o.ok THEN allFiles \o MapFiles(o.matches, fid) ELSE allFiles
              next   == IF o.ok THEN idx + 1 ELSE ItemFailureNext(idx, Len(folderIds))
          IN  /\ queryLog' = IF name = "" THEN queryLog
                             ELSE Append(queryLog, QueryEntry(name, k, fid, o.called))
              /\ failedAt' = IF o.ok THEN failedAt ELSE failedAt \cup {idx}
              /\ IF next > Len(folderIds)
                 THEN FinishItemSearch(merged, folderIds)
                 ELSE /\ allFiles' = merged
                      /\ idx' = next
                      /\ UNCHANGED << pc, topFiles, response >>
  /\ UNCHANGED << tool, args, folders, folderIds, content, embedCalls, readLog,
                  embedFailed, embedGot, folderSearch, readOutcome, embedFailedBefore,
                  envVars, libVars, etVars, indexerVars >>

\* What readFileContent(fileId) can return: text, an empty text, or
\* { success: false }; it catches every error itself.
ReadOutcomes == {"text", "empty", "failed"}

\* if (contentResult.success && contentResult.content) content.push(...)
ContentKeptIfSuccess(out) == out \in {"text", "empty"}
ContentKept(out) == out = "text"

\* One iteration of `for (const file of topFiles)` and, after the last one,
\* the assembly of the result.
ContentStep ==
  /\ pc = "content"
  /\ idx \in 1..Len(topFiles)
  /\ \E out \in ReadOutcomes :
       LET file == topFiles[idx]
           ct   == IF ContentKept(out) THEN Append(content, [fileId |-> file.fileId])
                   ELSE content
       IN  /\ readLog' = Append(readLog, file.fileId)
           /\ readOutcome' = Append(readOutcome, out)
           /\ content' = ct
           /\ IF idx = Len(topFiles)
              THEN /\ pc' = "done"
                   /\ idx' = idx
                   /\ response' = SuccessPayload(folders, topFiles, ct, TRUE, FALSE)
              ELSE /\ idx' = idx + 1
                   /\ UNCHANGED << pc, response >>
  /\ UNCHANGED << tool, args, folders, folderIds, allFiles, topFiles, embedCalls,
                  queryLog, embedFailed, embedGot, folderSearch, failedAt, embedFailedBefore,
                  envVars, libVars, etVars, indexerVars >>

\* ----------------------------------------------------------------- index.ts

\* initPinecone(apiKey, indexFolders, indexFiles): a no-op once the client is set.
initPineconeConfig ==
  IF pineconeClient THEN config
  ELSE << [indexFolders |-> IndexFoldersName, indexFiles |-> IndexFilesName] >>

\* main(): initialise Pinecone and the embeddings when their keys are set.
Main ==
  /\ ~mainDone
  /\ mainDone' = TRUE
  /\ pineconeClient' = (pineconeClient \/ pineconeApiKey)
  /\ config' = IF pineconeApiKey THEN initPineconeConfig ELSE config
  /\ genAI' = (genAI \/ geminiApiKey)
  /\ handles' = LET h == IF pineconeApiKey THEN initPineconeHandle(handles, EnvKey)
                         ELSE handles
                IN  IF geminiApiKey THEN initEmbeddings(h, EnvKey, DefaultModel) ELSE h
  /\ UNCHANGED << envVars, toolVars, etVars, indexerVars >>

\* ------------------------------------------------------------ environments

\* The container collection: the first n of three folders, best score first.
AllFolderRecords ==
  << [id |-> "F1", folderId |-> NoFolderId, score |-> 3],
     [id |-> "F2", folderId |-> NoFolderId, score |-> 2],
     [id |-> "F3", folderId |-> NoFolderId, score |-> 1] >>

FolderColls == { SubSeq(AllFolderRecords, 1, n) : n \in 0..3 }

\* The item collection: two files in F1, one in F2, one in F3.
FileColls ==
  { << [id |-> "a", folderId |-> "F1", score |-> sa],
       [id |-> "b", folderId |-> "F1", score |-> 1],
       [id |-> "c", folderId |-> "F2", score |-> sc],
       [id |-> "d", folderId |-> "F3", score |-> MaxScore] >> :
    sa \in 1..MaxScore, sc \in 1..MaxScore }

EtIdle ==
  /\ etPc = "off"
  /\ texts = << >>
  /\ batchSize = 0
  /\ maxRetries = 0
  /\ etI = 0
  /\ etK = 0
  /\ retries = 0
  /\ embeddings = << >>
  /\ etCalls = << >>
  /\ etWaits = << >>

\* No indexing run.
IxIdle ==
  /\ now = 0
  /\ source = {}
  /\ ops = << >>
  /\ lastUpsert = << >>
  /\ delLog = {}

\* No bulk operation.
SyIdle == sync = [pc |-> "off"]

\* No call of the library functions on its own.
NoCall == [kind |-> "none", result |-> "none", n |-> 0]
NoTask == [kind |-> "none", pc |-> "off"]
StIdle ==
  /\ call = NoCall
  /\ provLog = << >>
  /\ task = NoTask

ToolIdle ==
  /\ pc = "idle"
  /\ tool = "none"
  /\ args = DefaultArgs
  /\ folders = << >>
  /\ folderIds = << >>
  /\ idx = 0
  /\ allFiles = << >>
  /\ topFiles = << >>
  /\ content = << >>
  /\ response = NoResponse
  /\ embedCalls = 0
  /\ queryLog = << >>
  /\ readLog = << >>
  /\ embedFailed = FALSE
  /\ embedGot = "none"
  /\ folderSearch = "none"
  /\ failedAt = {}
  /\ readOutcome = << >>
  /\ embedFailedBefore = FALSE

LibNull ==
  /\ genAI = FALSE
  /\ pineconeClient = FALSE
  /\ config = << >>
  /\ handles = LibHandles(FALSE, FALSE)
  /\ mainDone = FALSE

\* The server process: any configuration, any of the indexed collections.
Init ==
  /\ pineconeApiKey \in BOOLEAN
  /\ geminiApiKey \in BOOLEAN
  /\ hosts \in SUBSET {FoldersHostVar, FilesHostVar}
  /\ folderColl \in FolderColls
  /\ fileColl \in FileColls
  /\ LibNull
  /\ ToolIdle
  /\ EtIdle
  /\ IxIdle
  /\ SyIdle
  /\ StIdle

Next ==
  \/ Main
  \/ CallSearchFolders
  \/ CallSearchFiles
  \/ CallDriveQuery
  \/ EmbedStep
  \/ FolderSearchStep
  \/ FileSearchStep
  \/ ContentStep

Spec == Init /\ [][Next]_vars

\* ------------------------------------------------- embedTexts (embeddings.ts)

TextAlphabet == {"x", "y"}

\* The vector the provider computes for a text.
Vec(t) == [of |-> t]

\* texts.slice(i, i + batchSize)
BatchAt(i) == JsSlice(texts, i, i + batchSize)

\* embeddings.push(embedding)
PushFront(embs, v) == << v >> \o embs
PushEmbedding(embs, v) == Append(embs, v)

\* the literal 1000 of the wait computation
BaseIntervalMs == 1000

\* Math.pow(2, retries) * 1000, evaluated after retries++
BackoffConstant(r) == 2 * BaseIntervalMs
BackoffMs(r) == (2 ^ r) * BaseIntervalMs

\* if (retries >= maxRetries) throw error: where control goes after the last
\* allowed attempt of a text has failed
ExhaustedReturnsPartial == "returned"
ExhaustedTarget == "thrown"

\* for (let i = 0; i < texts.length; i += batchSize): the loop test
EtLoopHead ==
  /\ etPc = "loopI"
  /\ IF etI < Len(texts)
     THEN etPc' = "loopK" /\ etK' = 1
     ELSE etPc' = "returned" /\ etK' = etK
  /\ UNCHANGED << texts, batchSize, maxRetries, etI, retries, embeddings, etCalls,
                  etWaits, envVars, libVars, toolVars, indexerVars >>

\* for (const text of batch): the next text, with retries = 0, success = false
EtNextText ==
  /\ etPc = "loopK"
  /\ IF etK <= Len(BatchAt(etI))
     THEN etPc' = "while" /\ retries' = 0 /\ etWaits' = << >>
     ELSE etPc' = "afterBatch" /\ UNCHANGED << retries, etWaits >>
  /\ UNCHANGED << texts, batchSize, maxRetries, etI, etK, embeddings, etCalls,
                  envVars, libVars, toolVars, indexerVars >>

\* while (retries < maxRetries && !success): one attempt, or the loop exit
EtAttempt ==
  /\ etPc = "while"
  /\ IF retries < maxRetries
     THEN \E o \in embedText :
            LET text == BatchAt(etI)[etK]
            IN  /\ etCalls' = IF o.called
                                 THEN Append(etCalls, [pos |-> etI + etK, text |-> text])
                                 ELSE etCalls
                /\ IF o.ok
                   THEN /\ embeddings' = PushEmbedding(embeddings, Vec(text))
                        /\ etPc' = "loopK"
                        /\ etK' = etK + 1
                        /\ UNCHANGED << retries, etWaits >>
                   ELSE /\ retries' = retries + 1
                        /\ UNCHANGED << embeddings, etK >>
                        /\ IF retries + 1 >= maxRetries
                           THEN etPc' = ExhaustedTarget /\ etWaits' = etWaits
                           ELSE /\ etPc' = "while"
                                /\ etWaits' = Append(etWaits, BackoffMs(retries + 1))
     ELSE /\ etPc' = "loopK"
          /\ etK' = etK + 1
          /\ UNCHANGED << retries, embeddings, etCalls, etWaits >>
  /\ UNCHANGED << texts, batchSize, maxRetries, etI, envVars, libVars, toolVars, indexerVars >>

\* the pause between batches and i += batchSize
EtAfterBatch ==
  /\ etPc = "afterBatch"
  /\ etI + batchSize >= -MaxUnderflow
  /\ etI' = etI + batchSize
  /\ etPc' = "loopI"
  /\ UNCHANGED << texts, batchSize, maxRetries, etK, retries, embeddings, etCalls,
                  etWaits, envVars, libVars, toolVars, indexerVars >>

\* A call embedTexts(texts, batchSize, maxRetries), with or without the client.
InitEmbed ==
  /\ pineconeApiKey = FALSE
  /\ geminiApiKey \in BOOLEAN
  /\ hosts = {}
  /\ folderColl = << >>
  /\ fileColl = << >>
  /\ genAI = geminiApiKey
  /\ pineconeClient = FALSE
  /\ config = << >>
  /\ handles = LibHandles(geminiApiKey, FALSE)
  /\ mainDone = FALSE
  /\ ToolIdle
  /\ IxIdle
  /\ SyIdle
  /\ StIdle
  /\ etPc = "loopI"
  /\ texts \in UNION { [1..n -> TextAlphabet] : n \in 0..MaxTexts }
  /\ batchSize \in -1..MaxBatchSize
  /\ maxRetries \in 0..MaxRetriesBound
  /\ etI = 0
  /\ etK = 0
  /\ retries = 0
  /\ embeddings = << >>
  /\ etCalls = << >>
  /\ etWaits = << >>

NextEmbed ==
  \/ EtLoopHead
  \/ EtNextText
  \/ EtAttempt
  \/ EtAfterBatch

SpecEmbed == InitEmbed /\ [][NextEmbed]_vars

\* -------------------- indexFolder / indexFile (services/driveSemanticIndexer.ts)

\* Latest clock value followed.
MaxClock == 1

\* const batchSize = 100 of upsertVectors
UpsertBatchSize == 100

\* The Drive of the indexing runs: one folder and one file in it.
FolderIds == {"F1"}
FileIds   == {"a"}
Entities  == FolderIds \cup FileIds

\* Two indexing runs (two invocations of scripts/indexDrive.ts) side by side:
\* run 1 is a "full" sync, run 2 the "folders" command, which indexes folders only.
Runs == {1, 2}
RunEntities(p) == IF p = 1 THEN Entities ELSE FolderIds

\* The semantic text built for an entity depends on what the Drive holds at
\* that moment: two different contents.
SemanticTexts == {"t1", "t2"}

NoRecord == [id |-> "none"]

\* A run outside indexFolder / indexFile; last is how its previous call ended.
IdleOp(last) ==
  [pc |-> "idle", e |-> "none", text |-> "none", vectors |-> << >>, upI |-> 0,
   last |-> last]

SliceIds(slice) == { slice[k].id : k \in 1..Len(slice) }
CollIds(coll)   == { coll[k].id : k \in 1..Len(coll) }
RemoveIds(coll, ids) == SelectSeq(coll, LAMBDA r : r.id \notin ids)

\* namespaceIndex.upsert(records): the provider stores each record under its
\* id, replacing the record that id had.
UpsertAppends(coll, slice) == coll \o slice
UpsertTogglesRecord(coll, slice) ==
  IF SliceIds(slice) \cap CollIds(coll) # {}
  THEN RemoveIds(coll, SliceIds(slice))
  ELSE coll \o slice
ProviderUpsert(coll, slice) == RemoveIds(coll, SliceIds(slice)) \o slice

\* A provider upsert that fails stores nothing, and the catch block of
\* upsertVectors only logs and rethrows.
FailedUpsertDropsOld(coll, slice) == RemoveIds(coll, SliceIds(slice))
AfterFailedUpsert(coll, slice) == coll

\* namespaceIndex.deleteMany(ids)
ProviderDelete(coll, ids) == RemoveIds(coll, ids)

\* getIndex(indexName) returns an index instead of throwing
IndexResolves(indexName) ==
  /\ config # << >>
  /\ indexName # ""
  /\ getIndexHost(indexName) # ""
  /\ pineconeClient

\* getFolderIndexName() in indexFolder, getFileIndexName() in indexFile
OpIndexName(e) == IF e \in FolderIds THEN getFolderIndexName ELSE getFileIndexName

\* The records stored under id e in the collection of its kind.
RecordsOf(fc, flc, e) ==
  SelectSeq(IF e \in FolderIds THEN fc ELSE flc, LAMBDA r : r.id = e)

\* { id, values: embedding, metadata: { ..., summary / previewText, lastSynced } }
IndexRecord(e, text, ts) ==
  [id |-> e, values |-> Vec(text), metadata |-> [text |-> text, lastSynced |-> ts]]

\* A run calls indexFolder / indexFile for an entity the Drive listed.
IxStart(p, e) ==
  /\ ops[p].pc = "idle"
  /\ e \in source
  /\ ops' = [ops EXCEPT ![p] = [IdleOp("none") EXCEPT !.pc = "text", !.e = e]]
  /\ UNCHANGED << now, source, lastUpsert, delLog, envVars, libVars, toolVars, etVars, syVars, stVars >>

\* await buildFolderSemanticText(...) / buildFileSemanticText(...): never
\* throws; the text reflects the Drive content read
IxBuildText(p) ==
  /\ ops[p].pc = "text"
  /\ \E t \in SemanticTexts :
       ops' = [ops EXCEPT ![p].pc = "embed", ![p].text = t]
  /\ UNCHANGED << now, source, lastUpsert, delLog, envVars, libVars, toolVars, etVars, syVars, stVars >>

\* await embedText(semanticText); then the metadata with lastSynced = new
\* Date(), and upsertVectors up to its first provider call
IxEmbed(p) ==
  /\ ops[p].pc = "embed"
  /\ \E o \in embedText :
       LET rec == IndexRecord(ops[p].e, ops[p].text, now)
       IN  IF o.ok /\ IndexResolves(OpIndexName(ops[p].e))
           THEN ops' = [ops EXCEPT ![p].pc = "upsert", ![p].vectors = << rec >>,
                                   ![p].upI = 0]
           ELSE ops' = [ops EXCEPT ![p] = IdleOp("failed")]
  /\ UNCHANGED << now, source, lastUpsert, delLog, envVars, libVars, toolVars, etVars, syVars, stVars >>

\* await namespaceIndex.upsert(vectors.slice(i, i + batchSize)): the provider
\* applies the write or fails it
IxUpsert(p) ==
  /\ ops[p].pc = "upsert"
  /\ LET slice == JsSlice(ops[p].vectors, ops[p].upI, ops[p].upI + UpsertBatchSize)
         host  == getIndexHost(OpIndexName(ops[p].e))
         apply(f(_, _)) ==
           /\ folderColl' = IF host = FoldersHostVar THEN f(folderColl, slice)
                            ELSE folderColl
           /\ fileColl' = IF host = FoldersHostVar THEN fileColl
                          ELSE f(fileColl, slice)
     IN  \E ok \in BOOLEAN :
           IF ok
           THEN /\ apply(ProviderUpsert)
                /\ IF ops[p].upI + UpsertBatchSize < Len(ops[p].vectors)
                   THEN /\ ops' = [ops EXCEPT ![p].upI = @ + UpsertBatchSize]
                        /\ UNCHANGED lastUpsert
                   ELSE /\ ops' = [ops EXCEPT ![p] = IdleOp("ok")]
                        /\ lastUpsert' =
                             [i \in Entities |->
                                IF i \in SliceIds(ops[p].vectors)
                                THEN ops[p].vectors[1] ELSE lastUpsert[i]]
           ELSE /\ apply(AfterFailedUpsert)
                /\ ops' = [ops EXCEPT ![p] = IdleOp("failed")]
                /\ UNCHANGED lastUpsert
  /\ UNCHANGED << now, source, delLog, pineconeApiKey, geminiApiKey, hosts,
                  libVars, toolVars, etVars, syVars, stVars >>

\* Time passes.
Tick ==
  /\ now < MaxClock
  /\ now' = now + 1
  /\ UNCHANGED << source, ops, lastUpsert, delLog, envVars, libVars, toolVars, etVars, syVars, stVars >>

\* A file disappears from the Drive.
SourceRemove(e) ==
  /\ e \in source
  /\ source' = source \ {e}
  /\ UNCHANGED << now, ops, lastUpsert, delLog, envVars, libVars, toolVars, etVars, syVars, stVars >>

\* deleteVectors(indexName, ids), called by a maintainer (no indexing
\* operation calls it)
DeleteVectors(indexName, ids) ==
  /\ LET host == getIndexHost(indexName)
         coll == HostColl(host)
         gone == { i \in CollIds(coll) : \E k \in 1..Len(ids) : ids[k] = i }
     IN  \E ok \in BOOLEAN :
           LET done == ok /\ IndexResolves(indexName)
           IN  /\ delLog' = delLog \cup { ids[k] : k \in 1..Len(ids) }
               /\ folderColl' = IF done /\ host = FoldersHostVar
                                THEN ProviderDelete(folderColl, gone) ELSE folderColl
               /\ fileColl' = IF done /\ host = FilesHostVar
                              THEN ProviderDelete(fileColl, gone) ELSE fileColl
               /\ lastUpsert' = [i \in Entities |->
                                   IF done /\ i \in gone THEN NoRecord
                                   ELSE lastUpsert[i]]
  /\ UNCHANGED << now, source, ops, pineconeApiKey, geminiApiKey, hosts,
                  libVars, toolVars, etVars, syVars, stVars >>

\* scripts/indexDrive.ts has initialised both clients (it exits when a key is
\* missing); the host variables may or may not be set; the store is empty.
InitIndex ==
  /\ pineconeApiKey = TRUE
  /\ geminiApiKey = TRUE
  /\ hosts \in SUBSET {FoldersHostVar, FilesHostVar}
  /\ folderColl = << >>
  /\ fileColl = << >>
  /\ genAI = TRUE
  /\ pineconeClient = TRUE
  /\ config = << [indexFolders |-> IndexFoldersName, indexFiles |-> IndexFilesName] >>
  /\ handles = LibHandles(TRUE, TRUE)
  /\ mainDone = FALSE
  /\ ToolIdle
  /\ EtIdle
  /\ SyIdle
  /\ StIdle
  /\ now = 0
  /\ source = Entities
  /\ ops = [p \in Runs |-> IdleOp("none")]
  /\ lastUpsert = [e \in Entities |-> NoRecord]
  /\ delLog = {}

NextIndex ==
  \/ \E p \in Runs : \E e \in RunEntities(p) : IxStart(p, e)
  \/ \E p \in Runs : IxBuildText(p)
  \/ \E p \in Runs : IxEmbed(p)
  \/ \E p \in Runs : IxUpsert(p)
  \/ Tick
  \/ \E e \in FileIds : SourceRemove(e)
  \/ \E n \in {IndexFoldersName, IndexFilesName}, e \in Entities :
       DeleteVectors(n, << e >>)

SpecIndex == InitIndex /\ [][NextIndex]_vars

\* ------- indexAllFolders / indexFilesInFolder / fullSync (driveSemanticIndexer.ts)

\* Longest folder listing of the "folders" command and longest file listing
\* of the "folder" command; the same for a full sync.
MaxFolders == 11
MaxFiles == 6
MaxSyncFolders == 2
MaxSyncFiles == 2

\* const batchSize = 10 of indexAllFolders, const batchSize = 5 of indexFilesInFolder
FolderBatchSize == 10
FileBatchSize == 5

\* Entries a listing may hold without an id or without a name.
ListingFlaws ==
  { [noId |-> {}, noName |-> {}], [noId |-> {1}, noName |-> {}],
    [noId |-> {}, noName |-> {2}] }

\* foldersResponse.folders of listAllFolders()
FolderListings(max) ==
  { [k \in 1..n |-> [id |-> k \notin f.noId, name |-> k \notin f.noName]] :
      n \in 0..max, f \in ListingFlaws }

\* filesResponse.files of listFilesInFolder(folderId)
FileListings(max) ==
  { [k \in 1..m |-> [id |-> k \notin f.noId]] : m \in 0..max, f \in ListingFlaws }

Positions(lst) == [k \in 1..Len(lst) |-> k]
Elements(s) == { s[k] : k \in 1..Len(s) }

\* if (!folder.id || !folder.name) return / continue
Indexable(lst) == { k \in 1..Len(lst) : lst[k].id /\ lst[k].name }

\* folders.slice(i, i + batchSize) / validFiles.slice(i, i + batchSize)
BatchRest(lst, i, size) == JsSlice(lst, i, Len(lst))
BatchOf(lst, i, size) == JsSlice(lst, i, i + size)

\* try { ... await indexFolder / indexFile ... } catch { console.error }: a
\* failing entity leaves the bulk operation running
TaskFailureAborts == "thrown"
TaskFailureResult == "running"

\* fullSync: await indexAllFolders() comes first
FullSyncSkipsFolders == "listAgain"
FullSyncStart == "listFolders"

\* await new Promise(resolve => setTimeout(resolve, 1000)) after each container
NoFolderPause(n) == n
FolderPause(n) == n + 1

SyncStart(cmd) ==
  [cmd |-> cmd,
   pc |-> IF cmd = "folder" THEN "listFiles"
          ELSE IF cmd = "full" THEN FullSyncStart ELSE "listFolders",
   result |-> "running",
   folders |-> << >>, fAttempts |-> << >>, again |-> << >>, f |-> 0,
   files |-> << >>, lookup |-> << >>, valid |-> << >>, iAttempts |-> << >>,
   i |-> 0, inflight |-> {},
   failed |-> FALSE, listFailed |-> FALSE, itemFailedAt |-> {},
   batchPauses |-> 0, folderPauses |-> 0, itemOrder |-> << >>,
   foldersDone |-> FALSE]

Bump(counts, ks) == [k \in 1..Len(counts) |-> counts[k] + (IF k \in ks THEN 1 ELSE 0)]

SyncFrame == UNCHANGED << envVars, libVars, toolVars, etVars, ixVars, stVars >>

\* What ends the bulk operation with a throw / a normal return.
Thrown(s)   == [s EXCEPT !.pc = "done", !.result = "thrown"]
Returned(s) == [s EXCEPT !.pc = "done", !.result = "returned"]

\* const foldersResponse = await listAllFolders() of indexAllFolders
SyListFolders ==
  /\ sync.pc = "listFolders"
  /\ \/ sync' = Thrown([sync EXCEPT !.listFailed = TRUE])
     \/ \E l \in FolderListings(IF sync.cmd = "full" THEN MaxSyncFolders
                                ELSE MaxFolders) :
          sync' = [sync EXCEPT !.folders = l, !.fAttempts = [k \in 1..Len(l) |-> 0],
                               !.i = 0, !.pc = "batch"]
  /\ SyncFrame

\* the loop test of indexAllFolders and batch.map(...): the callbacks of the
\* batch start, those of entries without id or name return at once
SyFolderBatch ==
  /\ sync.pc = "batch"
  /\ IF sync.i < Len(sync.folders)
     THEN LET run == Elements(BatchOf(Positions(sync.folders), sync.i, FolderBatchSize))
                       \cap Indexable(sync.folders)
          IN  sync' = [sync EXCEPT !.inflight = run, !.fAttempts = Bump(@, run),
                                   !.pc = "await"]
     ELSE IF sync.cmd = "folders"
          THEN sync' = Returned([sync EXCEPT !.foldersDone = TRUE])
          ELSE sync' = [sync EXCEPT !.foldersDone = TRUE, !.pc = "listAgain"]
  /\ SyncFrame

\* one callback of the running batch ends: its indexFolder / indexFile
\* returned, or threw and was caught
SyTaskEnd(k) ==
  /\ sync.pc \in {"await", "fawait"}
  /\ k \in sync.inflight
  /\ \E ok \in BOOLEAN :
       LET res == IF ok THEN "running" ELSE TaskFailureResult
           s   == [sync EXCEPT !.inflight = @ \ {k}, !.failed = @ \/ ~ok]
       IN  sync' = IF res = "thrown" THEN Thrown(s) ELSE s
  /\ SyncFrame

\* await Promise.all(batch.map(...)): every callback catches its own error, so
\* the promise resolves when all callbacks of the batch have ended.
ResolvesAtOnce(inflight) == TRUE
AllSettled(inflight) == inflight = {}

\* Promise.all of a folder batch resolved; the pause, and i += batchSize
SyFolderBatchEnd ==
  /\ sync.pc = "await"
  /\ AllSettled(sync.inflight)
  /\ sync' = [sync EXCEPT
                !.batchPauses = @ + (IF sync.i + FolderBatchSize < Len(sync.folders)
                                     THEN 1 ELSE 0),
                !.i = @ + FolderBatchSize, !.pc = "batch"]
  /\ SyncFrame

\* fullSync: const foldersResponse = await listAllFolders(), a second listing
SyListAgain ==
  /\ sync.pc = "listAgain"
  /\ \/ sync' = Thrown([sync EXCEPT !.listFailed = TRUE])
     \/ \E l \in FolderListings(MaxSyncFolders) :
          sync' = [sync EXCEPT !.again = l, !.f = 1, !.pc = "nextFolder"]
  /\ SyncFrame

\* fullSync: for (const folder of folders), up to the call of indexFilesInFolder
SyNextFolder ==
  /\ sync.pc = "nextFolder"
  /\ IF sync.f > Len(sync.again)
     THEN sync' = Returned(sync)
     ELSE IF sync.f \notin Indexable(sync.again)
     THEN sync' = [sync EXCEPT !.f = @ + 1]
     ELSE sync' = [sync EXCEPT !.itemOrder = Append(@, sync.f), !.pc = "listFiles"]
  /\ SyncFrame

\* How a finished indexFilesInFolder continues: the "folder" command ends, a
\* full sync (which catches a throw) goes to its pause.
AfterItems(s, threw) ==
  IF s.cmd = "folder"
  THEN (IF threw THEN Thrown(s) ELSE Returned(s))
  ELSE [s EXCEPT !.pc = "folderPause",
                 !.itemFailedAt = IF threw THEN @ \cup {s.f} ELSE @]

\* const filesResponse = await listFilesInFolder(folderId), and the start of
\* the metadata lookups of all listed files
SyListFiles ==
  /\ sync.pc = "listFiles"
  /\ \/ sync' = AfterItems([sync EXCEPT !.listFailed = TRUE, !.files = << >>,
                                        !.lookup = << >>, !.valid = << >>,
                                        !.iAttempts = << >>], TRUE)
     \/ sync' = AfterItems([sync EXCEPT !.files = << >>, !.lookup = << >>,
                                        !.valid = << >>, !.iAttempts = << >>], FALSE)
     \/ \E l \in FileListings(IF sync.cmd = "full" THEN MaxSyncFiles ELSE MaxFiles) :
          sync' = [sync EXCEPT
                     !.files = l,
                     !.lookup = [k \in 1..Len(l) |-> IF l[k].id THEN "pending"
                                                     ELSE "noid"],
                     !.valid = << >>,
                     !.iAttempts = [k \in 1..Len(l) |-> 0],
                     !.pc = "lookups"]
  /\ SyncFrame

\* one drive.files.get of the metadata lookups answers or throws (-> null)
SyLookupEnd(k) ==
  /\ sync.pc = "lookups"
  /\ k \in 1..Len(sync.lookup)
  /\ sync.lookup[k] = "pending"
  /\ \E ok \in BOOLEAN :
       sync' = [sync EXCEPT !.lookup[k] = IF ok THEN "ok" ELSE "failed"]
  /\ SyncFrame

\* fileDetails.filter(f => f !== null): the files whose lookup answered
ValidFilesUnfiltered(files, lookup) == Positions(files)
ValidFiles(files, lookup) ==
  SelectSeq(Positions(files), LAMBDA k : lookup[k] = "ok")

\* validFiles = fileDetails.filter(f => f !== null)
SyLookupsDone ==
  /\ sync.pc = "lookups"
  /\ \A k \in 1..Len(sync.lookup) : sync.lookup[k] # "pending"
  /\ sync' = [sync EXCEPT
                !.valid = ValidFiles(sync.files, sync.lookup),
                !.i = 0, !.pc = "fbatch"]
  /\ SyncFrame

\* the loop test of indexFilesInFolder and batch.map(...)
SyFileBatch ==
  /\ sync.pc = "fbatch"
  /\ IF sync.i < Len(sync.valid)
     THEN LET run == Elements(BatchOf(sync.valid, sync.i, FileBatchSize))
          IN  sync' = [sync EXCEPT !.inflight = run, !.iAttempts = Bump(@, run),
                                   !.pc = "fawait"]
     ELSE sync' = AfterItems(sync, FALSE)
  /\ SyncFrame

\* Promise.all of a file batch resolved; the pause, and i += batchSize
SyFileBatchEnd ==
  /\ sync.pc = "fawait"
  /\ AllSettled(sync.inflight)
  /\ sync' = [sync EXCEPT
                !.batchPauses = @ + (IF sync.i + FileBatchSize < Len(sync.valid)
                                     THEN 1 ELSE 0),
                !.i = @ + FileBatchSize, !.pc = "fbatch"]
  /\ SyncFrame

\* fullSync: the delay after a container, then the next one
SyFolderPause ==
  /\ sync.pc = "folderPause"
  /\ sync' = [sync EXCEPT !.folderPauses = FolderPause(@), !.f = @ + 1,
                          !.pc = "nextFolder"]
  /\ SyncFrame

\* One command of scripts/indexDrive.ts, both clients initialised.
InitSync ==
  /\ pineconeApiKey = TRUE
  /\ geminiApiKey = TRUE
  /\ hosts = {FoldersHostVar, FilesHostVar}
  /\ folderColl = << >>
  /\ fileColl = << >>
  /\ genAI = TRUE
  /\ pineconeClient = TRUE
  /\ config = << [indexFolders |-> IndexFoldersName, indexFiles |-> IndexFilesName] >>
  /\ handles = LibHandles(TRUE, TRUE)
  /\ mainDone = FALSE
  /\ ToolIdle
  /\ EtIdle
  /\ IxIdle
  /\ StIdle
  /\ \E cmd \in {"folders", "folder", "full"} : sync = SyncStart(cmd)

NextSync ==
  \/ SyListFolders
  \/ SyFolderBatch
  \/ \E k \in sync.inflight : SyTaskEnd(k)
  \/ SyFolderBatchEnd
  \/ SyListAgain
  \/ SyNextFolder
  \/ SyListFiles
  \/ \E k \in 1..Len(sync.lookup) : SyLookupEnd(k)
  \/ SyLookupsDone
  \/ SyFileBatch
  \/ SyFileBatchEnd
  \/ SyFolderPause

SpecSync == InitSync /\ [][NextSync]_vars

\* ------------------------------------------------------------- properties

Range(s) == { s[i] : i \in 1..Len(s) }

IsDescending(s) == \A i \in 1..Len(s) : \A j \in i..Len(s) : s[i].score >= s[j].score

\* The handler returned a success payload.
Succeeded == pc = "done" /\ response.kind = "success"

\* The item-search entries of the query log (everything after the container
\* search in the orchestrated query, everything in semantic_search_files).
ItemQueries == IF tool = DriveQuery THEN Tail(queryLog) ELSE queryLog

\* The records of folder fid that a search with this topK is entitled to: the
\* best topK of that folder (among equal scores, the ones stored first).
StoreItems(fid, k) ==
  LET inFolder == { p \in 1..Len(fileColl) : fileColl[p].folderId = fid }
      ahead(p) == { o \in inFolder :
                      \/ fileColl[o].score > fileColl[p].score
                      \/ fileColl[o].score = fileColl[p].score /\ o < p }
  IN  { fileColl[p] : p \in { q \in inFolder : Cardinality(ahead(q)) < k } }

\* The candidates of an invocation: the items obtained from the folders whose
\* search did not fail.
Candidates ==
  UNION { { [fileId |-> r.id, folderId |-> r.folderId, score |-> r.score] :
            r \in { x \in Range(fileColl) : x.folderId = folderIds[i] } }
          : i \in (1..Len(folderIds)) \ failedAt }

\* C1: semantic_drive_query returns the maxFiles best-scoring entries of the
\* union of the per-container results (all of them when there are fewer): at
\* most maxFiles entries in total, each one a candidate, and no candidate that
\* was left out scores strictly higher than a returned one.
C1_GlobalTopFiles ==
  (Succeeded /\ tool = DriveQuery /\ ~response.message) =>
    /\ Range(allFiles) \subseteq Candidates
    /\ Len(response.files) = Min(args.maxFiles, Len(allFiles))
    /\ Len(response.files) <= args.maxFiles
    /\ Range(response.files) \subseteq Range(allFiles)
    /\ Cardinality(Range(response.files)) = Len(response.files)
    /\ \A c \in Range(allFiles) \ Range(response.files) :
         \A r \in Range(response.files) : c.score <= r.score

\* Two containers were searched, their union is larger than maxFiles, and the
\* returned files come from both containers.
C1_Witness ==
  /\ Succeeded /\ tool = DriveQuery
  /\ Len(folderIds) = 2 /\ failedAt = {}
  /\ args.maxFiles = 2 /\ Len(allFiles) > 2
  /\ Len(response.files) = 2
  /\ response.files[1].folderId # response.files[2].folderId

\* C2: when the container search of semantic_drive_query returns zero matches
\* the handler returns a success payload with folders = [] and files = [], and
\* has issued no item query and no content extraction.
C2_ZeroFolders ==
  (tool = DriveQuery /\ folderSearch = "ok" /\ folders = << >>) =>
    /\ pc = "done"
    /\ response.kind = "success"
    /\ response.folders = << >> /\ response.files = << >>
    /\ Len(queryLog) = 1 /\ queryLog[1].index = IndexFoldersName
    /\ readLog = << >>

\* The container search answered with no match although content was asked for.
C2_Witness ==
  /\ tool = DriveQuery /\ folderSearch = "ok" /\ folders = << >>
  /\ pc = "done" /\ args.includeContent /\ args.maxFolders > 0 /\ args.maxFiles > 0

\* C3: semantic_drive_query queries the container collection with
\* topK = maxFolders and returns the containers that search returned (at most
\* maxFolders, best first); the item queries are one per returned container,
\* in order, each filtered to that container's id and never to another id.
C3_ScopedItemSearch ==
  (tool = DriveQuery /\ queryLog # << >>) =>
    /\ queryLog[1].index = IndexFoldersName
    /\ queryLog[1].topK = args.maxFolders
    /\ queryLog[1].filter = NoFilter
    /\ Len(folders) <= args.maxFolders
    /\ IsDescending(folders)
    /\ folderSearch = "ok" =>
         /\ Len(folders) = Min(args.maxFolders, Len(folderColl))
         /\ \A i \in 1..Len(folders) :
              /\ folders[i].folderId = folderColl[i].id
              /\ folders[i].score = folderColl[i].score
    /\ Len(ItemQueries) <= Len(folders)
    /\ \A i \in 1..Len(ItemQueries) :
         /\ ItemQueries[i].index = IndexFilesName
         /\ ItemQueries[i].filter = folders[i].folderId
    /\ (Succeeded /\ folders # << >>) =>
         /\ response.folders = folders
         /\ Len(ItemQueries) = Len(folders)

\* Three containers are indexed, maxFolders = 2: two are returned and searched.
C3_Witness ==
  /\ Succeeded /\ tool = DriveQuery
  /\ Len(folderColl) = 3 /\ args.maxFolders = 2
  /\ Len(response.folders) = 2 /\ Len(queryLog) = 3

\* C4: in semantic_drive_query and semantic_search_files a failed item search
\* of one container id does not stop the others: every container id is
\* searched, the merged list holds exactly the results of the searches that
\* did not fail, and the invocation ends with a success payload.
C4_ItemFailureIsolated ==
  (tool \in {DriveQuery, SearchFiles} /\ pc = "done" /\ folderIds # << >>) =>
    /\ response.kind = "success"
    /\ config # << >> =>
         /\ Len(ItemQueries) = Len(folderIds)
         /\ \A i \in 1..Len(folderIds) : ItemQueries[i].filter = folderIds[i]
    /\ Range(allFiles) =
         UNION { { [fileId |-> r.id, folderId |-> r.folderId, score |-> r.score] :
                   r \in StoreItems(folderIds[i], ItemTopK(tool, args)) }
                 : i \in (1..Len(folderIds)) \ failedAt }
    /\ Range(response.files) \subseteq Range(allFiles)
    /\ tool = SearchFiles => Range(response.files) = Range(allFiles)

\* The first of two item searches failed, the second one's results are returned.
C4_Witness ==
  /\ Succeeded /\ tool = DriveQuery
  /\ Len(folderIds) = 2 /\ failedAt = {1}
  /\ response.files # << >>
  /\ \A i \in 1..Len(response.files) : response.files[i].folderId = folderIds[2]

\* C5: with includeContent, a content-extraction failure for one top file
\* omits only that file's entry: every other top file whose extraction
\* succeeded has its content entry, the files list is unchanged and the
\* payload is a success payload.
C5_OnlyFailedContentOmitted ==
  (tool = DriveQuery /\ pc = "done" /\ args.includeContent
     /\ \E j \in 1..Len(readOutcome) : readOutcome[j] = "failed") =>
    /\ response.kind = "success"
    /\ response.files = topFiles
    /\ \A i \in 1..Len(readOutcome) :
         readOutcome[i] # "failed" =>
           \E e \in Range(response.content) : e.fileId = topFiles[i].fileId

\* C6: when the embedding client or the vector store is not initialised,
\* semantic_drive_query ends at once with an error payload that carries the
\* 'not available' message and a suggestion, and calls nothing.
C6_NotAvailable ==
  (tool = DriveQuery /\ ~(genAI /\ pineconeClient /\ config # << >>)) =>
    /\ pc = "done"
    /\ response.kind = "error"
    /\ response.error = ErrNotAvailable
    /\ response.suggestion
    /\ embedCalls = 0 /\ queryLog = << >> /\ readLog = << >>

\* The embeddings are initialised, the vector store is not.
C6_Witness ==
  /\ tool = DriveQuery /\ pc = "done"
  /\ genAI /\ ~pineconeClient
  /\ response.error = ErrNotAvailable

\* C7: each of the three handlers returns a success payload or a payload
\* tagged isError, whatever fails; no exception leaves the handler.
C7_NoEscape ==
  /\ response.kind \in {"none", "success", "error"}
  /\ pc = "done" => response.kind \in {"success", "error"}
  /\ (pc = "done" /\ (embedFailed \/ folderSearch = "failed")) => response.kind = "error"

\* The vector store failed during the container search and the handler
\* answered with an error payload.
C7_Witness ==
  /\ pc = "done" /\ folderSearch = "failed" /\ ~embedFailed
  /\ response.kind = "error" /\ response.error = ErrFailed

\* C8: every error payload of a query tool contains an error message and a
\* suggested non-semantic fallback.
C8_ErrorsCarrySuggestion ==
  response.kind = "error" => (response.error # ErrNone /\ response.suggestion)

\* History: no lib state is touched by a handler.
LibStateKept ==
  mainDone => /\ genAI = geminiApiKey
              /\ pineconeClient = pineconeApiKey
              /\ (config # << >>) = pineconeApiKey

\* C9: an embedding failure of the query ends the invocation with an error
\* payload, without any vector-store query or content extraction, and leaves
\* nothing behind: the lib state is as main left it, and a later invocation
\* whose embedding and container search succeed returns a success payload.
C9_EmbedFailureFatalOnce ==
  /\ embedFailed =>
       /\ pc = "done"
       /\ response.kind = "error"
       /\ queryLog = << >> /\ readLog = << >>
  /\ LibStateKept
  /\ (embedFailedBefore /\ pc = "done" /\ embedCalls = 1 /\ ~embedFailed
        /\ folderSearch # "failed") => response.kind = "success"

\* After an invocation that ended on an embedding failure, an orchestrated
\* query ran through and returned files with content.
C9_Witness ==
  /\ embedFailedBefore /\ Succeeded /\ tool = DriveQuery
  /\ embedCalls = 1 /\ response.files # << >> /\ response.content # << >>

\* C10: whenever embedTexts returns, the i-th output vector is the embedding
\* of the i-th input text, and (for maxRetries >= 1) there is exactly one
\* vector per text, also for the texts that needed retries.
C10_OrderPreserved ==
  etPc = "returned" =>
    /\ Len(embeddings) <= Len(texts)
    /\ \A i \in 1..Len(embeddings) : embeddings[i] = Vec(texts[i])
    /\ maxRetries >= 1 => Len(embeddings) = Len(texts)

\* Three texts, not all equal, in two batches, with at least one retry.
C10_Witness ==
  /\ etPc = "returned"
  /\ Len(texts) = 3 /\ texts[1] # texts[2] /\ batchSize = 2
  /\ Len(etCalls) > Len(texts)
  /\ Len(embeddings) = 3

\* C11: embedTexts is fail-fast. A text whose allowed attempts have all failed
\* makes the call throw: nothing runs after the throw (no list is returned),
\* every text before the failing one was embedded, and the provider was never
\* called for a text after it.
C11_FailFast ==
  /\ (maxRetries >= 1 /\ retries >= maxRetries) => etPc = "thrown"
  /\ etPc = "thrown" =>
       /\ \A c \in 1..Len(etCalls) : etCalls[c].pos <= etI + etK
       /\ Len(embeddings) = etI + etK - 1
       /\ ~ ENABLED NextEmbed

\* The provider failed a text on every attempt after an earlier text was
\* embedded and while another text was still to come.
C11_Witness ==
  /\ etPc = "thrown"
  /\ genAI
  /\ Len(embeddings) >= 1
  /\ etI + etK < Len(texts)
  /\ etCalls[Len(etCalls)].pos = etI + etK

\* The provider calls made for the text at position p.
CallsFor(p) == Cardinality({ c \in 1..Len(etCalls) : etCalls[c].pos = p })

\* What C12 has in common with its amendment: at most maxRetries provider
\* calls per text, every wait twice the previous one, one wait after every
\* failed attempt but the final one.
BackoffShape ==
  /\ \A p \in 1..Len(texts) : CallsFor(p) <= maxRetries
  /\ \A w \in 2..Len(etWaits) : etWaits[w] = 2 * etWaits[w - 1]
  /\ etPc = "while" => Len(etWaits) = retries
  /\ etPc = "thrown" => Len(etWaits) = retries - 1

\* C12 as stated: the calls per text are bounded by maxRetries and the waits
\* between the attempts of one text double from the base interval of 1000 ms
\* on, with no wait after the final failed attempt.
C12_BackoffFromBase ==
  /\ BackoffShape
  /\ Len(etWaits) >= 1 => etWaits[1] = BaseIntervalMs

\* C12 amended: the same, but the first wait is twice the base interval
\* (2000 ms), because retries is incremented before the wait is computed.
C12_BackoffFromTwiceBase ==
  /\ BackoffShape
  /\ Len(etWaits) >= 1 => etWaits[1] = 2 * BaseIntervalMs

\* A text failed three times: two waits were taken, none after the last.
C12_Witness ==
  /\ etPc = "thrown"
  /\ genAI
  /\ retries = 3
  /\ etWaits = << 2000, 4000 >>
  /\ CallsFor(etI + etK) = 3

\* C13: a single embedText call retries a transient provider failure before
\* it fails (so a failed call has reached the provider more than once), and
\* it never returns an empty or missing vector.
C13_EmbedTextRetries ==
  /\ (pc # "embed" /\ embedGot \in {"empty", "error"}) => embedFailed
  /\ (embedFailed /\ embedCalls >= 1) => embedCalls >= 2

\* C17: when an indexFolder / indexFile call ends in a failure, the records
\* stored under its id are the same after the failing step as before it, and
\* they are what the last upsertVectors that returned for that id wrote.
C17_FailedAttemptKeepsRecord ==
  [][\A p \in Runs :
       (ops[p].pc # "idle" /\ ops'[p].pc = "idle" /\ ops'[p].last = "failed") =>
         /\ RecordsOf(folderColl', fileColl', ops[p].e)
              = RecordsOf(folderColl, fileColl, ops[p].e)
         /\ RecordsOf(folderColl', fileColl', ops[p].e)
              = IF lastUpsert[ops[p].e] = NoRecord THEN << >>
                ELSE << lastUpsert[ops[p].e] >>]_vars

\* Both entities have a record, written at time 0, and a later attempt of
\* run 1 has failed.
C17_Witness ==
  /\ ops[1].last = "failed"
  /\ now = 1
  /\ \A e \in Entities :
       /\ Len(RecordsOf(folderColl, fileColl, e)) = 1
       /\ lastUpsert[e].metadata.lastSynced = 0

\* C18: an id that has been upserted successfully (and not deleted since) has
\* exactly one record in its collection, and that record is the one written
\* by the most recent successful upsert of the id.
C18_OneLatestRecord ==
  \A e \in Entities :
    lastUpsert[e] # NoRecord =>
      RecordsOf(folderColl, fileColl, e) = << lastUpsert[e] >>

\* Both runs have indexed the folder successfully (the file was never
\* stored, nothing was deleted), the later one with other content.
C18_Witness ==
  /\ ops[1].last = "ok" /\ ops[2].last = "ok"
  /\ delLog = {} /\ fileColl = << >> /\ lastUpsert["a"] = NoRecord
  /\ RecordsOf(folderColl, fileColl, "F1") = << IndexRecord("F1", "t2", 1) >>

\* C19: the lastSynced stored for an id never decreases from one state to the
\* next, also when two runs index the id concurrently.
C19_LastSyncedMonotonic ==
  [][\A e \in Entities :
       (RecordsOf(folderColl, fileColl, e) # << >>
          /\ RecordsOf(folderColl', fileColl', e) # << >>) =>
         RecordsOf(folderColl', fileColl', e)[1].metadata.lastSynced
           >= RecordsOf(folderColl, fileColl, e)[1].metadata.lastSynced]_vars

\* C20: the only step that takes an id out of a collection is a deleteVectors
\* call naming that id; no step of an indexing run (a step that moves a run
\* through indexFolder / indexFile) does.
C20_IndexingNeverRemoves ==
  [][\A e \in Entities :
       (RecordsOf(folderColl, fileColl, e) # << >>
          /\ RecordsOf(folderColl', fileColl', e) = << >>) =>
         /\ e \in delLog'
         /\ ops' = ops]_vars

\* The file has disappeared from the Drive, its record is still stored, and
\* a run is re-indexing the folder, which already has a record.
C20_Witness ==
  /\ source = {"F1"}
  /\ RecordsOf(folderColl, fileColl, "a") # << >>
  /\ RecordsOf(folderColl, fileColl, "F1") # << >>
  /\ ops[1].pc = "upsert" /\ ops[1].e = "F1"
  /\ ops[2].last = "ok"
  /\ delLog = {}

\* C14: a bulk operation throws only when a listing failed, never because
\* entities failed; no entity is attempted twice; when indexAllFolders has
\* gone through its batches every listed folder with an id and a name was
\* attempted once (and no other); when indexFilesInFolder has gone through
\* its batches every listed file that reached indexing (an id, and a metadata
\* lookup that answered) was attempted once; a full sync that returns has
\* started the item indexing of every container with an id and a name, in
\* order, whatever failed before.
C14_FailureIsolation ==
  /\ sync.result = "thrown" => sync.listFailed
  /\ \A k \in 1..Len(sync.fAttempts) : sync.fAttempts[k] <= 1
  /\ \A k \in 1..Len(sync.iAttempts) : sync.iAttempts[k] <= 1
  /\ sync.foldersDone =>
       \A k \in 1..Len(sync.folders) :
         sync.fAttempts[k] = IF k \in Indexable(sync.folders) THEN 1 ELSE 0
  /\ (sync.pc = "folderPause" \/ (sync.cmd = "folder" /\ sync.result = "returned")) =>
       \A k \in 1..Len(sync.files) :
         sync.iAttempts[k] = IF sync.lookup[k] = "ok" THEN 1 ELSE 0
  /\ (sync.cmd = "full" /\ sync.result = "returned") =>
       sync.itemOrder = SelectSeq(Positions(sync.again),
                                  LAMBDA k : k \in Indexable(sync.again))

\* A full sync returned although an entity failed and the item indexing of
\* the first of two containers threw.
C14_Witness ==
  /\ sync.cmd = "full" /\ sync.result = "returned"
  /\ sync.failed
  /\ sync.itemFailedAt = {1}
  /\ sync.itemOrder = << 1, 2 >>
  /\ Len(sync.files) = 2 /\ sync.iAttempts = << 1, 1 >>

\* C15: never more than 10 indexFolder operations in flight during
\* indexAllFolders, never more than 5 indexFile operations in flight during
\* indexFilesInFolder.
C15_BoundedInFlight ==
  Cardinality(sync.inflight) <= (IF sync.pc = "await" THEN FolderBatchSize
                                 ELSE FileBatchSize)

\* Eleven folders listed, the first batch of ten in flight.
C15_Witness ==
  /\ sync.pc = "await"
  /\ Len(sync.folders) = 11
  /\ Cardinality(sync.inflight) = 10

C21_OnlyChangedReindexed ==
  [][\A p \in Runs :
       (ops[p].pc = "embed" /\ ops'[p].pc # "embed") =>
         \A k \in 1..Len(RecordsOf(folderColl, fileColl, ops[p].e)) :
           RecordsOf(folderColl, fileColl, ops[p].e)[k].metadata.text # ops[p].text]_vars

\* --------------------------------------- lib/pinecone.ts, one call at a time

\* How many calls of the exported functions one behaviour makes.
MaxCalls == 2

\* The index names callers pass: getFolderIndexName() / getFileIndexName() of
\* the standard configuration.
CallerIndexNames == {IndexFoldersName, IndexFilesName}

\* The names scripts/verify_pinecone_fix.ts may configure instead.
TestConfig == << [indexFolders |-> "test-folders", indexFiles |-> "test-files"] >>
StdConfig  == << [indexFolders |-> IndexFoldersName, indexFiles |-> IndexFilesName] >>

\* The k-th record a caller passes to upsertVectors.
StoreRecord(k) ==
  [id |-> k, folderId |-> IF k % 2 = 0 THEN "F1" ELSE "F2", score |-> k % 3]

VectorsOf(n) == [k \in 1..n |-> StoreRecord(k)]

\* Lengths of the vectors argument: none, one, a full sub-batch, one more, and
\* two full sub-batches and one more.
VectorCounts == {0, 1, UpsertBatchSize, UpsertBatchSize + 1, 2 * UpsertBatchSize + 1}

\* The ids argument of deleteVectors: nothing, an id, two ids and an id no
\* record ever has (0), only that id.
DeleteIdLists == { << >>, << 1 >>, << 1, 2, 0 >>, << 0 >> }

\* for (let i = 0; i < vectors.length; i += batchSize)
\*   batch = vectors.slice(i, i + batchSize)
UpsertSlice(vectors, i) == JsSlice(vectors, i, i + UpsertBatchSize)
NextSliceOverlaps(i) == i + UpsertBatchSize - 1
NextSliceStart(i) == i + UpsertBatchSize

\* One call of the provider's client.
ProvCall(host, kind, slice) ==
  [host |-> host, kind |-> kind, ids |-> [k \in 1..Len(slice) |-> slice[k].id]]

\* The two collections after the provider has stored slice at host.
UpsertAt(host, coll, other, slice) ==
  IF host = other THEN ProviderUpsert(coll, slice) ELSE coll

\* upsertVectors(indexName, vectors) up to its first provider call: getIndex
\* throws when the index does not resolve; an empty vectors array makes no call.
StUpsertVectors(indexName, n) ==
  /\ call.result # "running"
  /\ call.n < MaxCalls
  /\ LET host == getIndexHost(indexName)
         c    == [kind |-> "upsert", index |-> indexName, host |-> host, count |-> n,
                  i |-> 0, applied |-> 0, n |-> call.n + 1,
                  before |-> CollIds(HostColl(host)), result |-> "running"]
     IN  IF ~IndexResolves(indexName)
         THEN /\ call' = [c EXCEPT !.result = "thrown", !.before = {}]
              /\ provLog' = << >>
         ELSE IF n = 0
         THEN /\ call' = [c EXCEPT !.result = "returned"]
              /\ provLog' = << >>
         ELSE /\ call' = c
              /\ provLog' = << ProvCall(host, "upsert", UpsertSlice(VectorsOf(n), 0)) >>
  /\ UNCHANGED << envVars, libVars, toolVars, etVars, ixVars, syVars, task >>

\* await namespaceIndex.upsert(batch) settles: on success the loop goes on to
\* the next slice or the function returns; on failure the catch block rethrows.
StUpsertAnswer ==
  /\ call.kind = "upsert"
  /\ call.result = "running"
  /\ LET vectors == VectorsOf(call.count)
         slice   == UpsertSlice(vectors, call.i)
         next    == NextSliceStart(call.i)
     IN  \E ok \in BOOLEAN :
           IF ok
           THEN /\ folderColl' = UpsertAt(call.host, folderColl, FoldersHostVar, slice)
                /\ fileColl' = UpsertAt(call.host, fileColl, FilesHostVar, slice)
                /\ IF next < Len(vectors)
                   THEN /\ call' = [call EXCEPT !.i = next, !.applied = @ + 1]
                        /\ provLog' = Append(provLog,
                                        ProvCall(call.host, "upsert", UpsertSlice(vectors, next)))
                   ELSE /\ call' = [call EXCEPT !.applied = @ + 1, !.result = "returned"]
                        /\ provLog' = provLog
           ELSE /\ folderColl' = IF call.host = FoldersHostVar
                                 THEN AfterFailedUpsert(folderColl, slice) ELSE folderColl
                /\ fileColl' = IF call.host = FilesHostVar
                               THEN AfterFailedUpsert(fileColl, slice) ELSE fileColl
                /\ call' = [call EXCEPT !.result = "thrown"]
                /\ provLog' = provLog
  /\ UNCHANGED << pineconeApiKey, geminiApiKey, hosts, libVars, toolVars, etVars,
                  ixVars, syVars, task >>

\* queryIndex(indexName, queryVector, topK, filter), from call to return:
\* getIndex throws when the index does not resolve; otherwise one query call,
\* whose matches are returned or whose error is rethrown. (What the matches
\* are is the matter of queryIndex above; here only the call is followed.)
StQueryIndex(indexName, topK, filter) ==
  /\ call.result # "running"
  /\ call.n < MaxCalls
  /\ \E ok \in BOOLEAN :
       /\ call' = [kind |-> "query", index |-> indexName, host |-> getIndexHost(indexName),
                   topK |-> topK, filter |-> filter, n |-> call.n + 1,
                   result |-> IF ok /\ IndexResolves(indexName)
                              THEN "returned" ELSE "thrown"]
       /\ provLog' = IF IndexResolves(indexName)
                     THEN << ProvCall(getIndexHost(indexName), "query", << >>) >>
                     ELSE << >>
  /\ UNCHANGED << envVars, libVars, toolVars, etVars, ixVars, syVars, task >>

\* deleteVectors(indexName, ids): getIndex throws when the index does not
\* resolve; otherwise one deleteMany(ids), whose error is rethrown. Each
\* outcome holds the two collections as the call leaves them.
DeleteOnePerCall(coll, ids) ==
  IF ids \cap CollIds(coll) = {} THEN coll
  ELSE RemoveIds(coll, {CHOOSE i \in ids \cap CollIds(coll) : TRUE})
DeleteMany(coll, ids) == ProviderDelete(coll, ids)

deleteVectors(fc, flc, indexName, ids) ==
  LET host  == getIndexHost(indexName)
      idSet == { ids[k] : k \in 1..Len(ids) }
  IN  IF ~IndexResolves(indexName)
      THEN { [ok |-> FALSE, called |-> FALSE, folders |-> fc, files |-> flc] }
      ELSE { [ok |-> FALSE, called |-> TRUE, folders |-> fc, files |-> flc],
             [ok |-> TRUE, called |-> TRUE,
              folders |-> IF host = FoldersHostVar THEN DeleteMany(fc, idSet) ELSE fc,
              files   |-> IF host = FilesHostVar THEN DeleteMany(flc, idSet) ELSE flc] }

StDeleteVectors(indexName, ids) ==
  /\ call.result # "running"
  /\ call.n < MaxCalls
  /\ \E o \in deleteVectors(folderColl, fileColl, indexName, ids) :
       /\ call' = [kind |-> "delete", index |-> indexName, host |-> getIndexHost(indexName),
                   ids |-> ids, n |-> call.n + 1,
                   before |-> [folders |-> folderColl, files |-> fileColl],
                   result |-> IF o.ok THEN "returned" ELSE "thrown"]
       /\ provLog' = IF o.called
                     THEN << [host |-> getIndexHost(indexName), kind |-> "delete", ids |-> ids] >>
                     ELSE << >>
       /\ folderColl' = o.folders
       /\ fileColl' = o.files
  /\ UNCHANGED << pineconeApiKey, geminiApiKey, hosts, libVars, toolVars, etVars,
                  ixVars, syVars, task >>

\* A process that uses the store: initPinecone has not run, or has run with
\* the standard names or with the names of the verification script; each host
\* variable is set or not; both collections are empty.
InitStore ==
  /\ pineconeApiKey \in BOOLEAN
  /\ geminiApiKey = FALSE
  /\ hosts \in SUBSET {FoldersHostVar, FilesHostVar}
  /\ folderColl = << >>
  /\ fileColl = << >>
  /\ genAI = FALSE
  /\ pineconeClient = pineconeApiKey
  /\ config \in IF pineconeApiKey THEN {StdConfig, TestConfig} ELSE {<< >>}
  /\ handles = LibHandles(FALSE, pineconeApiKey)
  /\ mainDone = TRUE
  /\ ToolIdle
  /\ EtIdle
  /\ IxIdle
  /\ SyIdle
  /\ StIdle

NextStore ==
  \/ \E name \in CallerIndexNames : \E n \in VectorCounts : StUpsertVectors(name, n)
  \/ StUpsertAnswer
  \/ \E name \in CallerIndexNames : \E k \in 0..MaxTopK : \E f \in {NoFilter, "F1"} :
       StQueryIndex(name, k, f)
  \/ \E name \in CallerIndexNames : \E ids \in DeleteIdLists : StDeleteVectors(name, ids)

SpecStore == InitStore /\ [][NextStore]_vars

\* ------------------------------------- initEmbeddings / initPinecone calls

\* The arguments callers pass: two keys, a model name or none (""), the
\* standard index names or others.
ApiKeys    == {"k1", "k2"}
ModelArgs  == {"", DefaultModel, "m2"}
NameConfigs == {StdConfig, TestConfig}

\* The module-level variables a call found.
LibSnapshot == [handles |-> handles, config |-> config]

\* initEmbeddings(apiKey, embeddingModel), from call to return
InInitEmbeddings(apiKey, embeddingModel) ==
  /\ call' = [kind |-> "initEmbeddings", apiKey |-> apiKey, model |-> embeddingModel,
              before |-> LibSnapshot, result |-> "returned", n |-> 0]
  /\ handles' = initEmbeddings(handles, apiKey, embeddingModel)
  /\ genAI' = TRUE
  /\ UNCHANGED << pineconeClient, config, mainDone, provLog, envVars, toolVars, etVars,
                  ixVars, syVars, task >>

\* initPinecone(apiKey, indexFolders, indexFiles), from call to return
InInitPinecone(apiKey, names) ==
  /\ call' = [kind |-> "initPinecone", apiKey |-> apiKey, names |-> names,
              before |-> LibSnapshot, result |-> "returned", n |-> 0]
  /\ handles' = initPineconeHandle(handles, apiKey)
  /\ config' = initPineconeNames(handles, config, names[1].indexFolders, names[1].indexFiles)
  /\ pineconeClient' = TRUE
  /\ UNCHANGED << genAI, mainDone, provLog, envVars, toolVars, etVars, ixVars, syVars, task >>

\* A process before any initialisation.
InitInit ==
  /\ pineconeApiKey = TRUE
  /\ geminiApiKey = TRUE
  /\ hosts = {FoldersHostVar, FilesHostVar}
  /\ folderColl = << >>
  /\ fileColl = << >>
  /\ LibNull
  /\ ToolIdle
  /\ EtIdle
  /\ IxIdle
  /\ SyIdle
  /\ StIdle

NextInit ==
  \/ \E k \in ApiKeys : \E m \in ModelArgs : InInitEmbeddings(k, m)
  \/ \E k \in ApiKeys : \E c \in NameConfigs : InInitPinecone(k, c)

SpecInit == InitInit /\ [][NextInit]_vars

\* ----------------------------------------------- properties of lib/pinecone.ts

\* The ids of sub-batch j of n records: records 100(j-1)+1 .. min(100j, n).
ExpectedSubBatch(j, n) ==
  [k \in 1..Min(UpsertBatchSize, n - UpsertBatchSize * (j - 1)) |->
     UpsertBatchSize * (j - 1) + k]

\* C22: upsertVectors sends the records in contiguous, non-overlapping
\* sub-batches of at most 100, in input order, one provider call at a time (a
\* sub-batch is sent only when all sent before it are applied); it returns only
\* when every record was sent and applied; when the call for sub-batch k fails,
\* the collection holds exactly sub-batches 1..k-1 on top of what it held, no
\* later sub-batch is sent, and the call ends with the error.
C22_SequentialSubBatches ==
  (call.kind = "upsert" /\ call.host # "") =>
    LET n    == call.count
        sent == Len(provLog)
    IN  /\ \A j \in 1..sent :
             /\ provLog[j].kind = "upsert"
             /\ provLog[j].host = call.host
             /\ provLog[j].ids # << >>
             /\ provLog[j].ids = ExpectedSubBatch(j, n)
        /\ call.result = "returned" =>
             /\ call.applied = sent
             /\ sent * UpsertBatchSize >= n
        /\ call.result \in {"running", "thrown"} =>
             /\ sent >= 1
             /\ call.applied = sent - 1
        /\ CollIds(HostColl(call.host)) =
             call.before \cup 1..Min(call.applied * UpsertBatchSize, n)

\* Sub-batch 2 of 3 failed: one sub-batch applied, the third never sent.
C22_Witness ==
  /\ call.kind = "upsert"
  /\ call.result = "thrown"
  /\ call.count = 2 * UpsertBatchSize + 1
  /\ call.applied = 1
  /\ Len(provLog) = 2
  /\ CollIds(HostColl(call.host)) = 1..UpsertBatchSize

\* The host variable of the collection an index name stands for under the
\* current configuration; "" for a name that is not configured.
OwnHost(indexName) ==
  IF config = << >> THEN ""
  ELSE IF indexName = config[1].indexFolders THEN FoldersHostVar
  ELSE IF indexName = config[1].indexFiles THEN FilesHostVar
  ELSE ""

\* initPinecone has run, the name is configured and its host variable is set.
HostResolved(indexName) ==
  /\ pineconeClient
  /\ OwnHost(indexName) # ""
  /\ OwnHost(indexName) \in hosts

\* C23: an upsertVectors, queryIndex or deleteVectors call on a collection
\* whose host is unresolved, or made before initPinecone, ends with an error
\* and makes no provider call; on a collection whose host is resolved, every
\* provider call of the call goes to that collection's own host.
C23_ResolveOrFail ==
  (call.kind \in {"upsert", "query", "delete"}) =>
    IF HostResolved(call.index)
    THEN \A j \in 1..Len(provLog) : provLog[j].host = OwnHost(call.index)
    ELSE call.result = "thrown" /\ provLog = << >>

\* An upsert on the files collection while PINECONE_FILES_HOST is not set.
C23_Witness ==
  /\ call.kind = "upsert"
  /\ call.index = IndexFilesName
  /\ call.count = 1
  /\ config = StdConfig
  /\ pineconeClient
  /\ hosts = {FoldersHostVar}
  /\ call.result = "thrown"
  /\ provLog = << >>

\* C24: initialisation happens once. An initEmbeddings call that finds the
\* client set returns without error and leaves the client and the model name
\* as they were, whatever its arguments; an initPinecone call that finds the
\* client set returns without error and leaves the client and the configured
\* index names as they were.
C24_InitOnce ==
  /\ (call.kind = "initEmbeddings" /\ call.before.handles.genAI # NoHandle) =>
       /\ call.result = "returned"
       /\ handles.genAI = call.before.handles.genAI
       /\ handles.model = call.before.handles.model
  /\ (call.kind = "initPinecone" /\ call.before.handles.pinecone # NoHandle) =>
       /\ call.result = "returned"
       /\ handles.pinecone = call.before.handles.pinecone
       /\ config = call.before.config

\* A second initEmbeddings call with another key and another model name.
C24_Witness ==
  /\ call.kind = "initEmbeddings"
  /\ call.before.handles.genAI = "k1"
  /\ call.before.handles.model = DefaultModel
  /\ call.apiKey = "k2"
  /\ call.model = "m2"
  /\ handles.genAI = "k1"
  /\ handles.model = DefaultModel

\* The filters a caller may pass: none, the id of a folder with items, an id
\* no item has.
QueryFilters == {NoFilter, "F1", "F2", "F3", "F9"}

PositionIn(seq, v) ==
  IF \E i \in 1..Len(seq) : seq[i] = v THEN CHOOSE i \in 1..Len(seq) : seq[i] = v ELSE 0

\* Where the store holds the record of an item.
StorePosition(fileId) ==
  IF \E i \in 1..Len(fileColl) : fileColl[i].id = fileId
  THEN CHOOSE i \in 1..Len(fileColl) : fileColl[i].id = fileId ELSE 0

\* C26: the item list semantic_drive_query returns is in descending order of
\* score, and of two returned items with equal scores the one whose container
\* the container search ranked earlier comes first; within one container, the
\* one the store holds (and so returns) earlier comes first.
C26_StableMerge ==
  (Succeeded /\ tool = DriveQuery /\ ~response.message) =>
    /\ IsDescending(response.files)
    /\ \A i \in 1..Len(response.files) : \A j \in (i + 1)..Len(response.files) :
         LET x == response.files[i]
             y == response.files[j]
         IN  x.score = y.score =>
               \/ PositionIn(folderIds, x.folderId) < PositionIn(folderIds, y.folderId)
               \/ /\ x.folderId = y.folderId
                  /\ StorePosition(x.fileId) < StorePosition(y.fileId)

\* Two returned items of different containers have the same score.
C26_Witness ==
  /\ Succeeded /\ tool = DriveQuery /\ ~response.message
  /\ \E i \in 1..Len(response.files) : \E j \in (i + 1)..Len(response.files) :
       /\ response.files[i].score = response.files[j].score
       /\ response.files[i].folderId # response.files[j].folderId

\* C27: semantic_search_files returns its items in descending order of score,
\* at most topK times the number of folder ids given, and at most topK of them
\* from any single folder id.
C27_TopKPerFolder ==
  (Succeeded /\ tool = SearchFiles) =>
    /\ IsDescending(response.files)
    /\ Len(response.files) <= args.topK * Len(args.folderIds)
    /\ \A fid \in Range(args.folderIds) :
         Cardinality({ i \in 1..Len(response.files) : response.files[i].folderId = fid })
           <= args.topK

\* The ids of a list.
IdSet(ids) == { ids[k] : k \in 1..Len(ids) }

\* The collection a delete call was aimed at, in a pair of collections.
TargetOf(pair) == IF call.host = FoldersHostVar THEN pair.folders ELSE pair.files
OtherOf(pair)  == IF call.host = FoldersHostVar THEN pair.files ELSE pair.folders

PhaseRank(p) ==
  CASE p = "embed"   -> 1
    [] p = "folders" -> 2
    [] p = "files"   -> 3
    [] p = "content" -> 4
    [] p = "done"    -> 5
    [] OTHER         -> 0

\* C29: a semantic_drive_query invocation starts with Embed (or ends at once),
\* moves from a phase only to the next one or to Terminal, never back, enters
\* Content retrieval only with includeContent, and in Item search each step
\* issues one query, the query of step i being the one for the
\* container the container search ranked i-th.
C29_LinearPhases ==
  [][tool' = DriveQuery =>
       /\ pc \in {"idle", "done"} => pc' \in {"idle", "embed", "done"}
       /\ pc \notin {"idle", "done"} =>
            /\ tool = DriveQuery
            /\ PhaseRank(pc') >= PhaseRank(pc)
            /\ (pc' # pc /\ pc' # "done") => PhaseRank(pc') = PhaseRank(pc) + 1
            /\ pc' = "content" => args.includeContent
            /\ pc # "folders" /\ pc # "files" => queryLog' = queryLog
            /\ pc = "files" =>
                 /\ Len(queryLog') = Len(queryLog) + 1
                 /\ queryLog'[Len(queryLog')].filter = folders[Len(queryLog)].folderId
                 /\ SubSeq(queryLog', 1, Len(queryLog)) = queryLog
                 /\ idx = Len(queryLog)]_vars

\* An orchestrated query went through all five phases, with two containers
\* searched for items.
C29_Witness ==
  /\ pc = "done"
  /\ tool = DriveQuery
  /\ args.includeContent
  /\ Len(queryLog) = 3
  /\ readLog # << >>
  /\ response.kind = "success"

\* The list the running batch loop goes through.
BatchList(s) == IF s.pc = "await" THEN s.folders ELSE s.valid
BatchStep(s) == IF s.pc = "await" THEN FolderBatchSize ELSE FileBatchSize

\* C30: batches run strictly one after the other. An entity starts indexing
\* only when nothing of an earlier batch is in flight; while an entity of the
\* batch is in flight the loop stays where it is, whether or not another entity
\* of the batch has failed; and the end of a batch is followed by a pause
\* exactly when it is not the last batch of its list.
C30_BatchesSequential ==
  [][/\ ~(sync'.inflight \subseteq sync.inflight) =>
          /\ sync.inflight = {}
          /\ sync.pc \in {"batch", "fbatch"}
     /\ (sync.pc \in {"await", "fawait"} /\ sync.inflight # {}) =>
          /\ sync'.pc = sync.pc
          /\ sync'.i = sync.i
          /\ sync'.result = "running"
          /\ sync'.batchPauses = sync.batchPauses
     /\ (sync.pc \in {"await", "fawait"} /\ sync'.pc # sync.pc) =>
          /\ sync'.i = sync.i + BatchStep(sync)
          /\ sync'.batchPauses =
               sync.batchPauses + (IF sync'.i < Len(BatchList(sync)) THEN 1 ELSE 0)
     /\ sync.pc \notin {"await", "fawait"} => sync'.batchPauses = sync.batchPauses]_vars

\* The "folders" command over eleven folders: two batches, one pause between
\* them, an entity that failed.
C30_Witness ==
  /\ sync.cmd = "folders"
  /\ sync.pc = "done"
  /\ sync.result = "returned"
  /\ Len(sync.folders) = 11
  /\ sync.batchPauses = 1
  /\ sync.failed

\* ------------------------------------------ more on the bulk operations

\* The files of the current listing with a request outstanding: a metadata
\* lookup not yet answered, or an indexFile call not yet ended.
OutstandingFiles ==
  IF sync.pc = "lookups"
  THEN { k \in 1..Len(sync.lookup) : sync.lookup[k] = "pending" }
  ELSE IF sync.pc = "fawait" THEN sync.inflight ELSE {}

\* C31: during indexFilesInFolder requests for at most 5 distinct files are
\* outstanding at any moment, in the metadata lookups as well as in the
\* batched indexing.
C31_AtMostFiveOutstanding ==
  Cardinality(OutstandingFiles) <= FileBatchSize

\* ------------------------- indexFolder / indexFile, one call step by step

\* How many members the listing of a folder holds at most.
MaxMembers == 6

\* files.slice(0, 5): the members read for the content preview
PreviewedMembers == 5

\* semanticText.slice(0, 1000) of indexFolder, semanticText.slice(0, 2000) of
\* indexFile
SummaryLength == 1000
FilePreviewLength == 2000

\* What listFilesInFolder answers inside buildFolderSemanticText.
MemberListings == FolderListings(MaxMembers)

\* The length of s.slice(from, to) for a string of n characters.
SliceLength(n, from, to) ==
  LET lo == IF from < 0 THEN Max(n + from, 0) ELSE Min(from, n)
      hi == IF to < 0 THEN Max(n + to, 0) ELSE Min(to, n)
  IN  Max(hi - lo, 0)

\* The lengths a semantic text may have: below, at and above the cut of the
\* stored summary / preview.
TextLengths(cut) == {cut - 1, cut, cut + 1}

NoText == [kind |-> "none"]

\* [`Folder: name`, `Path: path`, `Files: ...`, `Content preview: ...`].join:
\* files are the listed members with a name, previews the members whose
\* content went into the preview.
FolderText(name, path, files, previews, len) ==
  [kind |-> "folder", name |-> name, path |-> path, hasFiles |-> TRUE,
   files |-> files, previews |-> previews, len |-> len]

\* `Folder: ${folderName}\nPath: ${folderPath}` of the catch block
BasicFolderText(name, path, len) ==
  [kind |-> "folder", name |-> name, path |-> path, hasFiles |-> FALSE,
   files |-> << >>, previews |-> << >>, len |-> len]

\* [`File: name`, `Folder: folderName`, `Type: mimeType`, `Content: ...`].join
FileTextNoType(name, folderName, mimeType, hasContent, len) ==
  [kind |-> "file", name |-> name, folderName |-> folderName, mimeType |-> "",
   hasContent |-> hasContent, len |-> len]
FileText(name, folderName, mimeType, hasContent, len) ==
  [kind |-> "file", name |-> name, folderName |-> folderName, mimeType |-> mimeType,
   hasContent |-> hasContent, len |-> len]

\* const filesToPreview = files.slice(0, 5)
FilesToPreviewAll(files) == files
FilesToPreview(files) == JsSlice(files, 0, PreviewedMembers)

\* fileNames = files.map(f => f.name || '').filter(Boolean)
FileNamesOf(files) == SelectSeq(Positions(files), LAMBDA k : files[k].name)

\* summary: semanticText.slice(0, 1000) / previewText: semanticText.slice(0, 2000)
StoredTextUncut(kind, len) == len
StoredTextLength(kind, len) ==
  SliceLength(len, 0, IF kind = "folder" THEN SummaryLength ELSE FilePreviewLength)

\* The paths indexAllFolders may pass for the folder.
PathArgs == {"/", "/A/N"}

\* indexFolder(folderId, folderName, folderPath) / indexFile(fileId, fileName,
\* folderId, folderName, mimeType) at their first statement.
StartTask(kind, path) ==
  [kind |-> kind,
   pc |-> IF kind = "folder" THEN "list" ELSE "read",
   id |-> IF kind = "folder" THEN "F1" ELSE "a",
   name |-> IF kind = "folder" THEN "N" ELSE "a.txt",
   path |-> path, folderName |-> "N", mimeType |-> "text/plain",
   files |-> << >>, i |-> 0, outcomes |-> << >>, previews |-> << >>,
   text |-> NoText, log |-> << >>, record |-> NoRecord, result |-> "running"]

TaskFrame == UNCHANGED << pineconeApiKey, geminiApiKey, hosts, libVars, toolVars, etVars,
                          ixVars, syVars, call, provLog >>

\* buildFolderSemanticText: await listFilesInFolder(folderId). A throw goes to
\* the catch block, which returns the basic text; an answer without files
\* counts as an empty listing.
BfList ==
  /\ task.kind = "folder"
  /\ task.pc = "list"
  /\ \/ \E len \in TextLengths(SummaryLength) :
          task' = [task EXCEPT !.log = Append(@, << "list" >>),
                               !.text = BasicFolderText(task.name, task.path, len),
                               !.pc = "embed"]
     \/ \E l \in MemberListings :
          task' = [task EXCEPT !.log = Append(@, << "list" >>),
                               !.files = l,
                               !.outcomes = [k \in 1..Len(l) |-> "none"],
                               !.pc = "previews"]
  /\ UNCHANGED << folderColl, fileColl >>
  /\ TaskFrame

\* One iteration of `for (const file of filesToPreview)`: a member without id
\* is passed over; otherwise readFileContent is awaited and a readable,
\* non-empty content is added to the preview. After the last one the text is
\* put together.
BfPreview ==
  /\ task.kind = "folder"
  /\ task.pc = "previews"
  /\ LET toRead == FilesToPreview(task.files)
         k      == task.i + 1
     IN  IF k > Len(toRead)
         THEN \E len \in TextLengths(SummaryLength) :
                task' = [task EXCEPT
                           !.text = FolderText(task.name, task.path,
                                               FileNamesOf(task.files), task.previews, len),
                           !.pc = "embed"]
         ELSE IF ~toRead[k].id
         THEN task' = [task EXCEPT !.i = k]
         ELSE \E out \in ReadOutcomes :
                task' = [task EXCEPT
                           !.i = k,
                           !.log = Append(@, << "read", k >>),
                           !.outcomes[k] = out,
                           !.previews = IF ContentKept(out) THEN Append(@, k) ELSE @]
  /\ UNCHANGED << folderColl, fileColl >>
  /\ TaskFrame

\* buildFileSemanticText: await readFileContent(fileId); without a readable,
\* non-empty content the text holds the metadata only.
BxRead ==
  /\ task.kind = "file"
  /\ task.pc = "read"
  /\ \E out \in ReadOutcomes : \E len \in TextLengths(FilePreviewLength) :
       task' = [task EXCEPT
                  !.log = Append(@, << "read", 1 >>),
                  !.outcomes = << out >>,
                  !.text = FileText(task.name, task.folderName, task.mimeType,
                                    ContentKept(out), len),
                  !.pc = "embed"]
  /\ UNCHANGED << folderColl, fileColl >>
  /\ TaskFrame

\* { id, values: embedding, metadata: { type, name, path | folderId, summary |
\* previewText, lastSynced } }
TaskRecord(t, ts) ==
  [id |-> t.id, values |-> Vec(t.text),
   metadata |-> [type |-> t.kind, name |-> t.name, path |-> t.path,
                 stored |-> StoredTextLength(t.kind, t.text.len),
                 lastSynced |-> ts]]

\* await embedText(semanticText); then the metadata, and upsertVectors up to
\* its provider call (getIndex may throw before it).
BtEmbed ==
  /\ task.pc = "embed"
  /\ \E o \in embedText :
       LET logged == IF o.called THEN Append(task.log, << "embed" >>) ELSE task.log
           rec    == TaskRecord(task, now)
           host   == getIndexHost(OpIndexName(task.id))
       IN  IF ~o.ok
           THEN task' = [task EXCEPT !.log = logged, !.pc = "done", !.result = "thrown"]
           ELSE IF ~IndexResolves(OpIndexName(task.id))
           THEN task' = [task EXCEPT !.log = logged, !.record = rec, !.pc = "done",
                                     !.result = "thrown"]
           ELSE task' = [task EXCEPT
                           !.log = Append(logged, << "upsert", host, << rec.id >> >>),
                           !.record = rec, !.pc = "upsert"]
  /\ UNCHANGED << folderColl, fileColl >>
  /\ TaskFrame

\* await namespaceIndex.upsert([record]) settles; indexFolder / indexFile
\* returns, or rethrows what upsertVectors threw.
BtUpsert ==
  /\ task.pc = "upsert"
  /\ LET host  == getIndexHost(OpIndexName(task.id))
         slice == << task.record >>
     IN  \E ok \in BOOLEAN :
           /\ folderColl' = IF ok THEN UpsertAt(host, folderColl, FoldersHostVar, slice)
                            ELSE folderColl
           /\ fileColl' = IF ok THEN UpsertAt(host, fileColl, FilesHostVar, slice)
                          ELSE fileColl
           /\ task' = [task EXCEPT !.pc = "done",
                                   !.result = IF ok THEN "returned" ELSE "thrown"]
  /\ TaskFrame

\* scripts/indexDrive.ts has initialised both clients; each host variable is
\* set or not; the collections are empty; one indexFolder or indexFile call.
InitBuild ==
  /\ pineconeApiKey = TRUE
  /\ geminiApiKey = TRUE
  /\ hosts \in SUBSET {FoldersHostVar, FilesHostVar}
  /\ folderColl = << >>
  /\ fileColl = << >>
  /\ genAI = TRUE
  /\ pineconeClient = TRUE
  /\ config = StdConfig
  /\ handles = LibHandles(TRUE, TRUE)
  /\ mainDone = FALSE
  /\ ToolIdle
  /\ EtIdle
  /\ IxIdle
  /\ SyIdle
  /\ call = NoCall
  /\ provLog = << >>
  /\ \E kind \in {"folder", "file"} : \E path \in PathArgs : task = StartTask(kind, path)

NextBuild ==
  \/ BfList
  \/ BfPreview
  \/ BxRead
  \/ BtEmbed
  \/ BtUpsert

SpecBuild == InitBuild /\ [][NextBuild]_vars

\* ------------------------------------- getFolderPath, lookup by lookup

\* How many parent lookups of one walk are followed.
MaxHops == 4

\* The folder being indexed, and two other folders of the Drive.
PathIds == {"F1", "A", "R"}

\* folder.parents of each folder: none, one, or two of them.
ParentLists ==
  { << >> } \cup { << x >> : x \in PathIds } \cup { << x, "R" >> : x \in PathIds }

\* currentId = folder.parents[0]
LastParent(ps) == ps[Len(ps)]
NextParent(ps) == ps[1]

\* getFolderPath(folderId) at `while (currentId)`, inside the callback of
\* indexAllFolders for that folder.
StartWalk(parents) ==
  [kind |-> "path", pc |-> "walk", id |-> "F1", parents |-> parents,
   current |-> "F1", names |-> << >>, visited |-> << >>, failed |-> FALSE,
   path |-> << >>, indexed |-> FALSE, result |-> "running"]

\* One iteration of the loop: await drive.files.get(currentId). A throw goes
\* to the catch block, which returns '/'; an answer puts the name in front of
\* the path and either moves to the first parent or leaves the loop, and the
\* function returns '/' + path.join('/') (the path is kept as the list of names).
PwLookup ==
  /\ task.kind = "path"
  /\ task.pc = "walk"
  /\ Len(task.visited) < MaxHops
  /\ \/ task' = [task EXCEPT !.visited = Append(@, task.current), !.failed = TRUE,
                             !.path = << >>, !.pc = "index"]
     \/ LET names == << task.current >> \o task.names
            ps    == task.parents[task.current]
        IN  IF Len(ps) > 0
            THEN task' = [task EXCEPT !.visited = Append(@, task.current),
                                      !.names = names, !.current = NextParent(ps)]
            ELSE task' = [task EXCEPT !.visited = Append(@, task.current),
                                      !.names = names, !.path = names, !.pc = "index"]
  /\ UNCHANGED << folderColl, fileColl >>
  /\ TaskFrame

\* await indexFolder(folder.id, folder.name, path) inside try/catch: the record
\* is stored with the path it was given, or the error is logged.
PwIndexFolder ==
  /\ task.kind = "path"
  /\ task.pc = "index"
  /\ \E ok \in BOOLEAN :
       /\ folderColl' =
            IF ok
            THEN ProviderUpsert(folderColl,
                                << [id |-> task.id, metadata |-> [path |-> task.path]] >>)
            ELSE folderColl
       /\ task' = [task EXCEPT !.indexed = ok, !.pc = "done", !.result = "ended"]
  /\ UNCHANGED fileColl
  /\ TaskFrame

\* scripts/indexDrive.ts has initialised both clients; the Drive holds any
\* parent data, cyclic data included.
InitPath ==
  /\ pineconeApiKey = TRUE
  /\ geminiApiKey = TRUE
  /\ hosts = {FoldersHostVar, FilesHostVar}
  /\ folderColl = << >>
  /\ fileColl = << >>
  /\ genAI = TRUE
  /\ pineconeClient = TRUE
  /\ config = StdConfig
  /\ handles = LibHandles(TRUE, TRUE)
  /\ mainDone = FALSE
  /\ ToolIdle
  /\ EtIdle
  /\ IxIdle
  /\ SyIdle
  /\ call = NoCall
  /\ provLog = << >>
  /\ \E parents \in [PathIds -> ParentLists] : task = StartWalk(parents)

NextPath ==
  \/ PwLookup
  \/ PwIndexFolder

SpecPath == InitPath /\ [][NextPath]_vars

\* ------------------------------- properties of indexFolder / indexFile

\* C32: buildFolderSemanticText never fails. Whatever the listing and the
\* member reads did, indexFolder gets a text with the folder name and path
\* (it can only throw later, from the embedding or the upsert); the preview
\* holds exactly the members among the first 5 whose content was read and
\* non-empty, in order, so an unreadable member leaves the others in; and no
\* member after the fifth is ever read.
C32_FolderTextAlwaysBuilt ==
  (task.kind = "folder") =>
    /\ task.pc \in {"list", "previews"} => task.result = "running"
    /\ task.pc \notin {"list", "previews"} =>
         /\ task.text.kind = "folder"
         /\ task.text.name = task.name
         /\ task.text.path = task.path
         /\ task.text.previews = task.previews
    /\ task.previews =
         SelectSeq(Positions(task.files),
                   LAMBDA k : k <= Min(PreviewedMembers, task.i) /\ task.outcomes[k] = "text")
    /\ \A k \in 1..Len(task.outcomes) :
         task.outcomes[k] # "none" => k <= PreviewedMembers /\ task.files[k].id
    /\ \A j \in 1..Len(task.log) :
         task.log[j][1] = "read" => task.log[j][2] <= PreviewedMembers

\* Six members listed; the second could not be read, the first, third and
\* fifth went into the preview, the sixth was not read.
C32_Witness ==
  /\ task.kind = "folder"
  /\ task.pc = "embed"
  /\ Len(task.files) = 6
  /\ task.outcomes = << "text", "failed", "text", "empty", "text", "none" >>
  /\ task.text.previews = << 1, 3, 5 >>

\* The external calls of a kind in the log of the task.
LogEntries(kind) == { j \in 1..Len(task.log) : task.log[j][1] = kind }

\* C33: when the content of a file cannot be obtained, buildFileSemanticText
\* returns the text made of name, container name and content type only, and
\* indexFile goes on with it: the read itself never ends the call, the
\* embedding is requested for that text, and a call that returns has stored
\* the record built from it.
C33_MetadataOnlyFallback ==
  (task.kind = "file" /\ task.pc # "read" /\ task.outcomes[1] = "failed") =>
    /\ task.text.kind = "file"
    /\ task.text.name = task.name
    /\ task.text.folderName = task.folderName
    /\ task.text.mimeType = task.mimeType
    /\ ~task.text.hasContent
    /\ task.pc = "embed" => task.result = "running"
    /\ task.pc \in {"upsert", "done"} => LogEntries("embed") # {}
    /\ task.result = "returned" =>
         \E k \in 1..Len(fileColl) :
           /\ fileColl[k].id = task.id
           /\ fileColl[k].values = Vec(task.text)

\* The content of the file could not be read and the file was indexed.
C33_Witness ==
  /\ task.kind = "file"
  /\ task.outcomes = << "failed" >>
  /\ task.result = "returned"
  /\ ~task.text.hasContent
  /\ Len(fileColl) = 1

\* The collection an entity of this kind belongs to, and the other one.
OwnColl(kind)   == IF kind = "folder" THEN folderColl ELSE fileColl
OtherColl(kind) == IF kind = "folder" THEN fileColl ELSE folderColl

\* C34: an indexFolder / indexFile call that returns has made exactly one
\* embedding call and, after it, exactly one upsert, of one record keyed by the
\* entity's id, sent to the host of the collection of its kind; that
\* collection holds the record, with a stored summary of at most 1000
\* characters (folder) or preview of at most 2000 (file) and the timestamp of
\* the call, and the other collection is untouched. No upsert is ever sent
\* before the embedding was obtained.
C34_OneEmbedOneUpsert ==
  /\ task.kind \in {"folder", "file"} =>
       \A u \in LogEntries("upsert") : \E e \in LogEntries("embed") : e < u
  /\ (task.kind \in {"folder", "file"} /\ task.result = "returned") =>
       /\ Cardinality(LogEntries("embed")) = 1
       /\ Cardinality(LogEntries("upsert")) = 1
       /\ \A u \in LogEntries("upsert") :
            /\ task.log[u][2] = (IF task.kind = "folder" THEN FoldersHostVar ELSE FilesHostVar)
            /\ task.log[u][3] = << task.id >>
       /\ Len(OwnColl(task.kind)) = 1
       /\ OwnColl(task.kind)[1].id = task.id
       /\ OwnColl(task.kind)[1].values = Vec(task.text)
       /\ OwnColl(task.kind)[1].metadata.type = task.kind
       /\ OwnColl(task.kind)[1].metadata.stored <=
            (IF task.kind = "folder" THEN SummaryLength ELSE FilePreviewLength)
       /\ OwnColl(task.kind)[1].metadata.stored <= task.text.len
       /\ OwnColl(task.kind)[1].metadata.lastSynced = now
       /\ OtherColl(task.kind) = << >>

\* A folder with a text of 1001 characters was indexed with a summary of 1000.
C34_Witness ==
  /\ task.kind = "folder"
  /\ task.result = "returned"
  /\ task.text.len = SummaryLength + 1
  /\ Len(folderColl) = 1
  /\ folderColl[1].metadata.stored = SummaryLength

\* ----------------------------------------------- properties of getFolderPath

RECURSIVE ChainFrom(_, _, _)
\* The folders met from id upward along first parents, at most n of them.
ChainFrom(parents, id, n) ==
  IF n = 0 THEN << >>
  ELSE << id >> \o (IF parents[id] = << >> THEN << >>
                    ELSE ChainFrom(parents, parents[id][1], n - 1))

\* The first-parent links from the folder run into a cycle.
Cyclic(parents) ==
  Len(ChainFrom(parents, "F1", Cardinality(PathIds) + 1)) > Cardinality(PathIds)

\* The names from the root down to the folder.
RootToLeaf(parents) ==
  LET up == ChainFrom(parents, "F1", Cardinality(PathIds))
  IN  [k \in 1..Len(up) |-> up[Len(up) + 1 - k]]

\* C35 as stated: the walk ends exactly when it has reached an entity with no
\* parent.
C35_EndsOnlyAtRoot ==
  (task.kind = "path" /\ task.pc # "walk") => task.parents[task.current] = << >>

\* C35, amended: the walk looks up the folder and then first parents only; it
\* ends when it has reached an entity with no parent, returning the chain of
\* names, or when a lookup fails; on cyclic parent data it does not end while
\* the lookups succeed, and the callback of the batch that awaits it does not
\* end either.
C35_EndsAtRootOrFailure ==
  (task.kind = "path") =>
    /\ task.visited =
         SubSeq(ChainFrom(task.parents, "F1", Len(task.visited)), 1, Len(task.visited))
    /\ Len(ChainFrom(task.parents, "F1", Len(task.visited))) = Len(task.visited)
    /\ task.pc # "walk" => (task.failed \/ task.parents[task.current] = << >>)
    /\ (task.pc # "walk" /\ ~task.failed) =>
         /\ ~Cyclic(task.parents)
         /\ task.path = RootToLeaf(task.parents)
    /\ (Cyclic(task.parents) /\ ~task.failed) =>
         /\ task.pc = "walk"
         /\ task.result = "running"

\* The folder's parent is its own child: four lookups made, the walk goes on.
C35_Witness ==
  /\ task.kind = "path"
  /\ task.parents["F1"] = << "A" >>
  /\ task.parents["A"] = << "F1", "R" >>
  /\ task.visited = << "F1", "A", "F1", "A" >>
  /\ ~task.failed
  /\ task.pc = "walk"

\* C36: the path stored for an indexed folder is the full chain of names from
\* the root down to the folder, as its parent data gives it; never a path that
\* leaves out ancestors the folder has.
C36_FullPathStored ==
  (task.kind = "path" /\ ~Cyclic(task.parents)) =>
    \A k \in 1..Len(folderColl) :
      folderColl[k].id = task.id =>
        folderColl[k].metadata.path = RootToLeaf(task.parents)

\* C37: in indexFilesInFolder a file without an id, or whose metadata lookup
\* failed, is never handed to indexFile; no file is handed to it twice; when
\* the operation has returned after its batches every file whose lookup
\* answered was handed to it once; and the operation throws only when the
\* listing failed, never because of a lookup.
C37_FailedLookupDropped ==
  (sync.cmd = "folder") =>
    /\ \A k \in 1..Len(sync.files) :
         /\ sync.lookup[k] # "ok" => sync.iAttempts[k] = 0
         /\ sync.iAttempts[k] <= 1
         /\ (sync.result = "returned" /\ sync.lookup[k] = "ok") => sync.iAttempts[k] = 1
    /\ sync.result = "thrown" => sync.listFailed

\* indexFilesInFolder returned: one lookup failed, one file had no id, and
\* the other files were each handed to indexFile once.
C37_Witness ==
  /\ sync.cmd = "folder"
  /\ sync.result = "returned"
  /\ \E k \in 1..Len(sync.files) : sync.lookup[k] = "failed" /\ sync.iAttempts[k] = 0
  /\ \E k \in 1..Len(sync.files) : sync.lookup[k] = "noid" /\ sync.iAttempts[k] = 0
  /\ \E k \in 1..Len(sync.files) : sync.lookup[k] = "ok" /\ sync.iAttempts[k] = 1

\* C38: embedTexts never skips a text silently. Whenever it returns, for any
\* maxRetries >= 0 and any batchSize, the output holds exactly one vector per
\* input text.
C38_OneVectorPerText ==
  etPc = "returned" => Len(embeddings) = Len(texts)

\* embedTexts as the event loop runs it: every provider call and every timer
\* it awaits comes back, so a call that can take a step takes one.
SpecEmbedFair == InitEmbed /\ [][NextEmbed]_vars /\ WF_vars(NextEmbed)

\* C39: embedTexts terminates, by returning or by throwing, for every list of
\* texts and every integer batchSize and maxRetries, batchSize = 0 with a
\* non-empty list included. A call whose i has gone below 0 (negative
\* batchSize) is followed only down to the bound, so it is not held against
\* the claim here: what remains is a consequence of the claim.
C39_Terminates == <>(etPc \in {"returned", "thrown"} \/ etI < 0)

\* C40: a configuration failure of the vector store is never reported as a
\* successful result. When semantic_search_files, or the item search of
\* semantic_drive_query, has ended and an item search failed while the store
\* was not initialised or the host of the file collection was unresolved, the
\* response is an error payload.
C40_ConfigFailureReported ==
  (/\ pc = "done"
   /\ tool \in {SearchFiles, DriveQuery}
   /\ failedAt # {}
   /\ ~IndexResolves(getFileIndexName)) => response.kind = "error"

====
